---- MODULE Spec2Model ----
(***************************************************************************)
(* A model of the risk control engine (backend/risk_manager.py), of the    *)
(* resilience layer (CircuitBreaker, RateLimiter and                        *)
(* APIManager._execute_with_circuit_breaker in backend/api_manager.py) and  *)
(* of the signal processor (backend/signal_processor.py).                   *)
(*                                                                          *)
(* Time is the wall clock datetime.now(), in whole seconds.  Money is in    *)
(* whole currency units; amounts inside messages are in hundredths, the     *)
(* two decimals the code formats them with.  An Optional value is None      *)
(* (the empty tuple) or Some(v) (a one-element tuple).                      *)
(***************************************************************************)
EXTENDS Integers, Sequences, FiniteSets, TLC

VARIABLES
    now,        \* datetime.now(), seconds
    config,     \* the TradingConfig handed to RiskManager.__init__
    rm,         \* the RiskManager's fields
    breaker,    \* one CircuitBreaker
    limiter,    \* one RateLimiter
    pc,         \* per caller: where it is inside _execute_with_circuit_breaker
    wake,       \* per caller: the instant its asyncio.sleep ends
    admitted,   \* per caller: the breaker state can_execute() left when it let the caller in
    found,      \* per caller: the breaker state its call found
    api,        \* the APIManager's breakers and limiters, by API
    task,       \* per task of the event loop or per thread: the method it is in, and where
    sp,         \* the SignalProcessor's fields
    calls,      \* number of gate calls started so far
    last_op,    \* the last call made: the operation
    last_ret,   \* the last call made: what it returned
    last_found  \* the last call made on a breaker: the state it found the breaker in

vars == <<now, config, rm, breaker, limiter, pc, wake, admitted, found, calls, api, task, sp,
          last_op, last_ret, last_found>>

riskVars == <<config, rm>>
gateVars == <<breaker, limiter, pc, wake, admitted, found, calls>>
apiVars == <<api, task>>

----------------------------------------------------------------------------
(* Bounds of the model *)

MaxTicks == 2           \* clock advances explored
MaxHistory == 3         \* record_trade_result is explored while today's history is shorter
ConsecutiveLossLimit == 2   \* the CONSECUTIVE_LOSS_LIMIT the engine is configured with
MaxGateTicks == 3       \* clock advances explored for the breaker and the gate
MaxFailures == 6        \* record_failure is not explored beyond this failure_count
NumCallers == 2         \* concurrent callers of one gate
MaxCalls == 3           \* calls of the gate started in one run
MaxRequests == 2        \* largest max_requests a limiter is built with
MaxRecordCalls == 3     \* record_trade_result calls started by the threads of one run
MaxValidations == 2     \* validate_signal_with_alpha_vantage calls in one run
MaxPipelineCalls == 6   \* runs of the signal pipeline: five failed validations open the breaker
MaxLimiterTicks == 4    \* clock advances explored for one RateLimiter called directly
MaxRecorded == 3        \* record_request is explored while fewer requests are held

\* The clock at construction (23:00 of day 0) and the seconds per advance of the
\* clock in the runs of the risk engine: a pause of 60 minutes set at 23:00 is
\* still in force at 00:00 (now = pause_until), when the date changes, and has
\* expired at 01:00.
StartSecond == 23 * 60 * 60
RiskTick == 60 * 60

(* Program constants *)

MaxDailyLossPercent == 5    \* config.py default MAX_DAILY_LOSS_PERCENT
MaxTradePercent == 2        \* config.py default MAX_TRADE_PERCENT
DefaultPauseMinutes == 60   \* _pause_trading(duration_minutes=60)
MinTrade == 1               \* calculate_position_size: min_trade = 1.0, whole units

None == << >>
Some(v) == <<v>>
Val(o) == o[1]

Date(t) == t \div (24 * 60 * 60)

----------------------------------------------------------------------------
(* Messages and results of the risk engine *)

Msg(text, sub, n, m) == [text |-> text, sub |-> sub, n |-> n, m |-> m]
NoMsg == Msg("", "", 0, 0)

ValidationResult(is_valid, error_message) ==
    [is_valid |-> is_valid, error_message |-> error_message, raised |-> FALSE]

\* An exception leaving the call instead of a returned value.
Raised(name) == [is_valid |-> FALSE, error_message |-> Msg(name, "", 0, 0), raised |-> TRUE]

Valid == ValidationResult(TRUE, NoMsg)

\* A pause reason: the text before the colon and the number formatted after it.
Reason(text, n) == [text |-> text, n |-> n]

\* "Daily loss" in pause_reason
MentionsDailyLoss(reason) == reason.text = "Daily loss limit exceeded"

\* f"{x:.2f}" of the percentage loss / start * 100, in hundredths (nearest).
Percent2f(loss, start) ==
    IF loss >= 0 THEN (2 * loss * 10000 + start) \div (2 * start)
    ELSE -((2 * (-loss) * 10000 + start) \div (2 * start))

----------------------------------------------------------------------------
(* RiskManager *)

RiskManagerInit ==
    [trade_history |-> << >>,
     daily_start_balance |-> None,
     is_paused |-> FALSE,
     pause_reason |-> None,
     pause_until |-> None]

_resume_trading(s) ==
    [s EXCEPT !.is_paused = FALSE, !.pause_reason = None, !.pause_until = None]

\* _pause_trading adding duration_minutes to the clock as seconds.
_pause_trading_in_seconds(s, reason, duration_minutes, t) ==
    [s EXCEPT !.is_paused = TRUE,
              !.pause_reason = Some(reason),
              !.pause_until = Some(t + duration_minutes)]

_pause_trading(s, reason, duration_minutes, t) ==
    [s EXCEPT !.is_paused = TRUE,
              !.pause_reason = Some(reason),
              !.pause_until = Some(t + duration_minutes * 60)]

\* is_trading_paused lifting the pause already at pause_until (>= for >).
is_trading_paused_at_deadline(s, t) ==
    LET s1 == IF s.pause_until # None /\ t >= Val(s.pause_until)
              THEN _resume_trading(s) ELSE s
    IN  [state |-> s1, ret |-> s1.is_paused]

is_trading_paused(s, t) ==
    LET s1 == IF s.pause_until # None /\ t > Val(s.pause_until)
              THEN _resume_trading(s) ELSE s
    IN  [state |-> s1, ret |-> s1.is_paused]

\* _count_consecutive_losses ending its walk at a trade that has not settled.
_count_consecutive_losses_ending_at_unsettled(h, i) ==
    LET walk[k \in 0..Len(h)] ==
            IF k = 0 THEN 0
            ELSE IF h[k].is_win = "False" THEN 1 + walk[k - 1]
            ELSE 0
    IN  walk[i]

_count_consecutive_losses_from(h, i) ==
    LET walk[k \in 0..Len(h)] ==
            IF k = 0 THEN 0
            ELSE IF h[k].is_win = "False" THEN 1 + walk[k - 1]
            ELSE IF h[k].is_win = "True" THEN 0
            ELSE walk[k - 1]
    IN  walk[i]

_count_consecutive_losses(s) == _count_consecutive_losses_from(s.trade_history, Len(s.trade_history))

_validate_trade_amount(cfg, amount, available_balance) ==
    IF amount <= 0
    THEN ValidationResult(FALSE, Msg("Trade amount must be positive", "", 0, 0))
    ELSE IF amount > available_balance
    THEN ValidationResult(FALSE,
            Msg("Insufficient balance", "", amount * 100, available_balance * 100))
    ELSE IF amount * 100 > available_balance * cfg.max_trade_percent
    THEN ValidationResult(FALSE,
            Msg("Trade amount exceeds maximum allowed", "",
                amount * 100, available_balance * cfg.max_trade_percent))
    ELSE Valid

\* check_daily_limits taking every balance within the limit as the new start
\* balance.
check_daily_limits_moving_start(s, cfg, current_balance, t) ==
    IF s.daily_start_balance = None
    THEN [state |-> [s EXCEPT !.daily_start_balance = Some(current_balance)],
          ret |-> TRUE, raised |-> FALSE]
    ELSE LET start == Val(s.daily_start_balance)
             daily_loss == start - current_balance
         IN  IF start = 0
             THEN [state |-> s, ret |-> FALSE, raised |-> TRUE]
             ELSE IF daily_loss * 100 >= cfg.max_daily_loss_percent * start
             THEN [state |-> _pause_trading(s,
                                Reason("Daily loss limit exceeded", Percent2f(daily_loss, start)),
                                DefaultPauseMinutes, t),
                   ret |-> FALSE, raised |-> FALSE]
             ELSE [state |-> [s EXCEPT !.daily_start_balance = Some(current_balance)],
                   ret |-> TRUE, raised |-> FALSE]

\* check_daily_limits pausing only above max_daily_loss_percent (> for >=).
check_daily_limits_strictly_over(s, cfg, current_balance, t) ==
    IF s.daily_start_balance = None
    THEN [state |-> [s EXCEPT !.daily_start_balance = Some(current_balance)],
          ret |-> TRUE, raised |-> FALSE]
    ELSE LET start == Val(s.daily_start_balance)
             daily_loss == start - current_balance
         IN  IF start = 0
             THEN [state |-> s, ret |-> FALSE, raised |-> TRUE]
             ELSE IF daily_loss * 100 > cfg.max_daily_loss_percent * start
             THEN [state |-> _pause_trading(s,
                                Reason("Daily loss limit exceeded", Percent2f(daily_loss, start)),
                                DefaultPauseMinutes, t),
                   ret |-> FALSE, raised |-> FALSE]
             ELSE [state |-> s, ret |-> TRUE, raised |-> FALSE]

check_daily_limits(s, cfg, current_balance, t) ==
    IF s.daily_start_balance = None
    THEN [state |-> [s EXCEPT !.daily_start_balance = Some(current_balance)],
          ret |-> TRUE, raised |-> FALSE]
    ELSE LET start == Val(s.daily_start_balance)
             daily_loss == start - current_balance
         IN  IF start = 0
             THEN \* daily_loss / 0: ZeroDivisionError
                  [state |-> s, ret |-> FALSE, raised |-> TRUE]
             ELSE IF daily_loss * 100 >= cfg.max_daily_loss_percent * start
             THEN [state |-> _pause_trading(s,
                                Reason("Daily loss limit exceeded", Percent2f(daily_loss, start)),
                                DefaultPauseMinutes, t),
                   ret |-> FALSE, raised |-> FALSE]
             ELSE [state |-> s, ret |-> TRUE, raised |-> FALSE]

_validate_daily_limits(s, cfg, balance, t) ==
    LET c == check_daily_limits(s, cfg, balance.total_balance, t)
        start == c.state.daily_start_balance
        truthy == start # None /\ Val(start) # 0
        pct == IF truthy THEN Percent2f(Val(start) - balance.total_balance, Val(start)) ELSE 0
    IN  IF c.raised THEN [state |-> c.state, ret |-> Raised("ZeroDivisionError")]
        ELSE IF ~c.ret
        THEN [state |-> c.state,
              ret |-> ValidationResult(FALSE,
                        Msg("Daily loss limit exceeded", "", pct, cfg.max_daily_loss_percent))]
        ELSE [state |-> c.state, ret |-> Valid]

_validate_consecutive_losses(s, cfg) ==
    LET consecutive_losses == _count_consecutive_losses(s)
    IN  IF consecutive_losses >= cfg.consecutive_loss_limit
        THEN ValidationResult(FALSE,
                Msg("Consecutive loss limit reached", "",
                    consecutive_losses, cfg.consecutive_loss_limit))
        ELSE Valid

\* _validate_demo_mode with the test of is_demo inverted.
_validate_demo_mode_inverted(cfg, request) ==
    IF cfg.demo_mode /\ request.is_demo
    THEN ValidationResult(FALSE,
            Msg("Real trading is disabled. System is in demo mode.", "", 0, 0))
    ELSE Valid

_validate_demo_mode(cfg, request) ==
    IF cfg.demo_mode /\ ~request.is_demo
    THEN ValidationResult(FALSE,
            Msg("Real trading is disabled. System is in demo mode.", "", 0, 0))
    ELSE Valid

validate_trade_request(s, cfg, request, balance, t) ==
    LET p == is_trading_paused(s, t)
        amount_validation == _validate_trade_amount(cfg, request.amount, balance.available_balance)
        d == _validate_daily_limits(p.state, cfg, balance, t)
        consecutive_loss_validation == _validate_consecutive_losses(d.state, cfg)
        demo_validation == _validate_demo_mode(cfg, request)
    IN  IF p.ret
        THEN [state |-> p.state,
              ret |-> ValidationResult(FALSE,
                        Msg("Trading is paused", Val(p.state.pause_reason).text,
                            Val(p.state.pause_reason).n, 0))]
        ELSE IF ~amount_validation.is_valid
        THEN [state |-> p.state, ret |-> amount_validation]
        ELSE IF ~d.ret.is_valid
        THEN d
        ELSE IF ~consecutive_loss_validation.is_valid
        THEN [state |-> d.state, ret |-> consecutive_loss_validation]
        ELSE IF ~demo_validation.is_valid
        THEN [state |-> d.state, ret |-> demo_validation]
        ELSE [state |-> d.state, ret |-> Valid]

\* should_pause_trading pausing only above consecutive_loss_limit (> for >=).
should_pause_trading_strictly_over(s, cfg, recent_losses, t) ==
    IF recent_losses > cfg.consecutive_loss_limit
    THEN [state |-> _pause_trading(s, Reason("Consecutive loss limit reached", recent_losses),
                                   DefaultPauseMinutes, t),
          ret |-> TRUE]
    ELSE [state |-> s, ret |-> FALSE]

should_pause_trading(s, cfg, recent_losses, t) ==
    IF recent_losses >= cfg.consecutive_loss_limit
    THEN [state |-> _pause_trading(s, Reason("Consecutive loss limit reached", recent_losses),
                                   DefaultPauseMinutes, t),
          ret |-> TRUE]
    ELSE [state |-> s, ret |-> FALSE]

\* record_trade_result pruning the history before it appends, so that the
\* recorded trade stays whatever its date.
record_trade_result_pruning_first(s, cfg, trade_result, t) ==
    LET today == Date(t)
        pruned == SelectSeq(s.trade_history, LAMBDA trade : Date(trade.timestamp) = today)
        s1 == [s EXCEPT !.trade_history = Append(pruned, trade_result)]
        consecutive_losses == _count_consecutive_losses(s1)
    IN  IF consecutive_losses >= cfg.consecutive_loss_limit
        THEN should_pause_trading(s1, cfg, consecutive_losses, t).state
        ELSE s1

record_trade_result(s, cfg, trade_result, t) ==
    LET appended == Append(s.trade_history, trade_result)
        today == Date(t)
        s1 == [s EXCEPT !.trade_history =
                    SelectSeq(appended, LAMBDA trade : Date(trade.timestamp) = today)]
        consecutive_losses == _count_consecutive_losses(s1)
    IN  IF consecutive_losses >= cfg.consecutive_loss_limit
        THEN should_pause_trading(s1, cfg, consecutive_losses, t).state
        ELSE s1

\* resume_trading reporting a change whether or not the engine was paused.
resume_trading_always_true(s) == [state |-> _resume_trading(s), ret |-> TRUE]

resume_trading(s) ==
    IF s.is_paused
    THEN [state |-> _resume_trading(s), ret |-> TRUE]
    ELSE [state |-> s, ret |-> FALSE]

\* reset_daily_metrics lifting the pause whatever its reason.
reset_daily_metrics_lifting_any_pause(s, new_balance) ==
    _resume_trading([s EXCEPT !.daily_start_balance = Some(new_balance),
                              !.trade_history = << >>])

reset_daily_metrics(s, new_balance) ==
    LET s1 == [s EXCEPT !.daily_start_balance = Some(new_balance),
                        !.trade_history = << >>]
    IN  IF s1.is_paused /\ s1.pause_reason # None /\ MentionsDailyLoss(Val(s1.pause_reason))
        THEN _resume_trading(s1)
        ELSE s1

\* round(x, 2) of the exact x = n / 10000, in hundredths: the nearest hundredth,
\* the even one when x lies midway.
Round2(n) ==
    LET q == n \div 100
        r == n % 100
    IN  IF 2 * r < 100 THEN q
        ELSE IF 2 * r > 100 THEN q + 1
        ELSE IF q % 2 = 0 THEN q ELSE q + 1

Min(a, b) == IF a <= b THEN a ELSE b
Max(a, b) == IF a >= b THEN a ELSE b

\* calculate_position_size without the lower bound min_trade.
calculate_position_size_without_floor(cfg, balance, risk_percent) ==
    LET risk_percent0 == IF risk_percent = None THEN cfg.max_trade_percent
                         ELSE Val(risk_percent)
        risk_percent1 == Min(risk_percent0, cfg.max_trade_percent)
        position_size == balance * risk_percent1
        max_trade == balance * cfg.max_trade_percent
    IN  Round2(Min(position_size, max_trade))

\* calculate_position_size: balance and the size returned are in hundredths of
\* the currency unit, risk_percent is Optional and in whole percent; the sizes
\* in between are in ten-thousandths (hundredths times percent).
calculate_position_size(cfg, balance, risk_percent) ==
    LET risk_percent0 == IF risk_percent = None THEN cfg.max_trade_percent
                         ELSE Val(risk_percent)
        risk_percent1 == Min(risk_percent0, cfg.max_trade_percent)
        position_size == balance * risk_percent1
        min_trade == MinTrade * 100 * 100
        max_trade == balance * cfg.max_trade_percent
    IN  Round2(Max(min_trade, Min(position_size, max_trade)))

\* (daily_loss / daily_start_balance) * 100, a float: kept as the quotient it is
\* computed from.
Percent(loss, start) == [num |-> loss * 100, den |-> start]
ZeroPercent == [num |-> 0, den |-> 1]

RiskMetrics(daily_loss, daily_loss_percent, consecutive_losses, trades_today, last_loss_time, is_paused, pause_reason) ==
    [daily_loss |-> daily_loss,
     daily_loss_percent |-> daily_loss_percent,
     consecutive_losses |-> consecutive_losses,
     trades_today |-> trades_today,
     last_loss_time |-> last_loss_time,
     is_paused |-> is_paused,
     pause_reason |-> pause_reason]

\* The loop of get_risk_metrics over reversed(trade_history): "not trade.is_win"
\* holds of is_win False and of is_win None.
last_loss_time_of(h) ==
    LET walk[k \in 0..Len(h)] ==
            IF k = 0 THEN None
            ELSE IF h[k].is_win # "True" THEN Some(h[k].timestamp)
            ELSE walk[k - 1]
    IN  walk[Len(h)]

\* get_risk_metrics taking current_balance as the day's start balance at
\* every call.
get_risk_metrics_restarting_day(s, current_balance) ==
    LET s1 == [s EXCEPT !.daily_start_balance = Some(current_balance)]
        start == Val(s1.daily_start_balance)
        daily_loss == Max(0, start - current_balance)
        daily_loss_percent == IF start > 0 THEN Percent(daily_loss, start) ELSE ZeroPercent
    IN  [state |-> s1,
         ret |-> RiskMetrics(daily_loss, daily_loss_percent, _count_consecutive_losses(s1),
                             Len(s1.trade_history), last_loss_time_of(s1.trade_history),
                             s1.is_paused, s1.pause_reason)]

get_risk_metrics(s, current_balance) ==
    LET s1 == IF s.daily_start_balance = None
              THEN [s EXCEPT !.daily_start_balance = Some(current_balance)]
              ELSE s
        start == Val(s1.daily_start_balance)
        daily_loss == Max(0, start - current_balance)
        daily_loss_percent == IF start > 0 THEN Percent(daily_loss, start) ELSE ZeroPercent
    IN  [state |-> s1,
         ret |-> RiskMetrics(daily_loss, daily_loss_percent, _count_consecutive_losses(s1),
                             Len(s1.trade_history), last_loss_time_of(s1.trade_history),
                             s1.is_paused, s1.pause_reason)]

\* record_trade_result statement by statement, as threads sharing one
\* RiskManager execute it: the append (line 163), the list the comprehension
\* builds from the history it reads (lines 166-170), the assignment of that
\* list to self.trade_history (line 167), and the streak check (lines 173-175).
record_append(s, trade_result) ==
    [s EXCEPT !.trade_history = Append(s.trade_history, trade_result)]

record_todays(s, t) ==
    SelectSeq(s.trade_history, LAMBDA trade : Date(trade.timestamp) = Date(t))

record_assign(s, todays) == [s EXCEPT !.trade_history = todays]

record_check(s, cfg, t) ==
    LET consecutive_losses == _count_consecutive_losses(s)
    IN  IF consecutive_losses >= cfg.consecutive_loss_limit
        THEN should_pause_trading(s, cfg, consecutive_losses, t).state
        ELSE s

----------------------------------------------------------------------------
(* CircuitBreaker *)

DefaultFailureThreshold == 5    \* CircuitBreaker.failure_threshold
DefaultTimeout == 60            \* CircuitBreaker.timeout, seconds

CircuitBreaker(failure_threshold, timeout) ==
    [failure_threshold |-> failure_threshold,
     timeout |-> timeout,
     failure_count |-> 0,
     last_failure_time |-> None,
     state |-> "CLOSED"]

\* record_success taking one failure off the count.
record_success_forgiving_one(b) ==
    [b EXCEPT !.failure_count = b.failure_count - 1, !.state = "CLOSED"]

\* record_success closing the breaker without resetting the count.
record_success_keeping_count(b) == [b EXCEPT !.state = "CLOSED"]

record_success(b) == [b EXCEPT !.failure_count = 0, !.state = "CLOSED"]

\* record_failure opening only above failure_threshold (> for >=).
record_failure_strictly_over(b, t) ==
    LET b1 == [b EXCEPT !.failure_count = b.failure_count + 1,
                        !.last_failure_time = Some(t)]
    IN  IF b1.failure_count > b1.failure_threshold
        THEN [b1 EXCEPT !.state = "OPEN"]
        ELSE b1

\* record_failure stamping last_failure_time only when it is unset.
record_failure_keeping_first_time(b, t) ==
    LET b1 == [b EXCEPT !.failure_count = b.failure_count + 1,
                        !.last_failure_time =
                            IF b.last_failure_time = None THEN Some(t) ELSE b.last_failure_time]
    IN  IF b1.failure_count >= b1.failure_threshold
        THEN [b1 EXCEPT !.state = "OPEN"]
        ELSE b1

record_failure(b, t) ==
    LET b1 == [b EXCEPT !.failure_count = b.failure_count + 1,
                        !.last_failure_time = Some(t)]
    IN  IF b1.failure_count >= b1.failure_threshold
        THEN [b1 EXCEPT !.state = "OPEN"]
        ELSE b1

\* can_execute promoting already at last_failure_time + timeout (>= for >).
can_execute_at_timeout(b, t) ==
    IF b.state = "CLOSED" THEN [breaker |-> b, ret |-> TRUE]
    ELSE IF b.state = "OPEN"
    THEN IF b.last_failure_time # None /\ t - Val(b.last_failure_time) >= b.timeout
         THEN [breaker |-> [b EXCEPT !.state = "HALF_OPEN"], ret |-> TRUE]
         ELSE [breaker |-> b, ret |-> FALSE]
    ELSE [breaker |-> b, ret |-> TRUE]

can_execute(b, t) ==
    IF b.state = "CLOSED" THEN [breaker |-> b, ret |-> TRUE]
    ELSE IF b.state = "OPEN"
    THEN IF b.last_failure_time # None /\ t - Val(b.last_failure_time) > b.timeout
         THEN [breaker |-> [b EXCEPT !.state = "HALF_OPEN"], ret |-> TRUE]
         ELSE [breaker |-> b, ret |-> FALSE]
    ELSE \* HALF_OPEN
         [breaker |-> b, ret |-> TRUE]

----------------------------------------------------------------------------
(* RateLimiter *)

TimeWindow == 60    \* RateLimiter(time_window=60) of every limiter of APIManager

RateLimiter(max_requests, time_window) ==
    [max_requests |-> max_requests, time_window |-> time_window, requests |-> << >>]

\* can_make_request keeping a request that is exactly time_window old.
can_make_request_keeping_the_boundary(l, t) ==
    LET kept == SelectSeq(l.requests, LAMBDA req_time : t - req_time <= l.time_window)
    IN  [limiter |-> [l EXCEPT !.requests = kept], ret |-> Len(kept) < l.max_requests]

can_make_request(l, t) ==
    LET kept == SelectSeq(l.requests, LAMBDA req_time : t - req_time < l.time_window)
    IN  [limiter |-> [l EXCEPT !.requests = kept], ret |-> Len(kept) < l.max_requests]

record_request(l, t) == [l EXCEPT !.requests = Append(l.requests, t)]

Oldest(requests) ==
    CHOOSE r \in {requests[i] : i \in 1..Len(requests)} :
        \A i \in 1..Len(requests) : r <= requests[i]

Newest(requests) ==
    CHOOSE r \in {requests[i] : i \in 1..Len(requests)} :
        \A i \in 1..Len(requests) : r >= requests[i]

\* wait_time waiting for the newest request to leave the window.
wait_time_for_the_newest(l, t) ==
    LET c == can_make_request(l, t)
    IN  IF c.ret THEN [limiter |-> c.limiter, ret |-> 0]
        ELSE IF c.limiter.requests = << >> THEN [limiter |-> c.limiter, ret |-> 0]
        ELSE LET wait_until == Newest(c.limiter.requests) + c.limiter.time_window
                 w == wait_until - t
             IN  [limiter |-> c.limiter, ret |-> IF w > 0 THEN w ELSE 0]

wait_time(l, t) ==
    LET c == can_make_request(l, t)
    IN  IF c.ret THEN [limiter |-> c.limiter, ret |-> 0]
        ELSE IF c.limiter.requests = << >> THEN [limiter |-> c.limiter, ret |-> 0]
        ELSE LET wait_until == Oldest(c.limiter.requests) + c.limiter.time_window
                 w == wait_until - t
             IN  [limiter |-> c.limiter, ret |-> IF w > 0 THEN w ELSE 0]

----------------------------------------------------------------------------
(* APIManager._execute_with_circuit_breaker.  A call runs without interruption *)
(* from one await to the next: from its start to the sleep or to the awaited   *)
(* action, from the end of the sleep to the awaited action, and from the       *)
(* action's end to the return.                                                 *)

\* From the start of the call to its first await.
\* The start of the call recording the request before it asks the breaker.
execute_begin_recording_first(b, l, t) ==
    LET l1 == record_request(l, t)
        ce == can_execute(b, t)
    IN  IF ~ce.ret
        THEN [breaker |-> ce.breaker, limiter |-> l1, pc |-> "raised", wake |-> 0]
        ELSE [breaker |-> ce.breaker, limiter |-> l1, pc |-> "action", wake |-> 0]

\* The start of the call recording the request before it sleeps.
execute_begin_recording_before_sleep(b, l, t) ==
    LET ce == can_execute(b, t)
        cm == can_make_request(l, t)
        w == wait_time(cm.limiter, t)
    IN  IF ~ce.ret
        THEN [breaker |-> ce.breaker, limiter |-> l, pc |-> "raised", wake |-> 0]
        ELSE IF ~cm.ret /\ w.ret > 0
        THEN [breaker |-> ce.breaker, limiter |-> record_request(w.limiter, t),
              pc |-> "sleeping", wake |-> t + w.ret]
        ELSE IF ~cm.ret
        THEN [breaker |-> ce.breaker, limiter |-> record_request(w.limiter, t),
              pc |-> "action", wake |-> 0]
        ELSE [breaker |-> ce.breaker, limiter |-> record_request(cm.limiter, t),
              pc |-> "action", wake |-> 0]

execute_begin(b, l, t) ==
    LET ce == can_execute(b, t)
        cm == can_make_request(l, t)
        w == wait_time(cm.limiter, t)
    IN  IF ~ce.ret
        THEN [breaker |-> ce.breaker, limiter |-> l, pc |-> "raised", wake |-> 0]
        ELSE IF ~cm.ret /\ w.ret > 0
        THEN [breaker |-> ce.breaker, limiter |-> w.limiter, pc |-> "sleeping", wake |-> t + w.ret]
        ELSE IF ~cm.ret
        THEN [breaker |-> ce.breaker, limiter |-> record_request(w.limiter, t),
              pc |-> "action", wake |-> 0]
        ELSE [breaker |-> ce.breaker, limiter |-> record_request(cm.limiter, t),
              pc |-> "action", wake |-> 0]

\* From the end of asyncio.sleep(wait_time) to the awaited action.
execute_after_sleep(l, t) == record_request(l, t)

\* From the return of the awaited action to the return of the call.  recorded
\* lists the calls made on the breaker.
execute_action_returned(b, result) ==
    [breaker |-> record_success(b),
     recorded |-> <<"record_success">>,
     ret |-> Some(result), raised |-> None]

\* From the exception of the awaited action (an Exception e) to the raise that
\* leaves the call.
\* The exception of the action logged and swallowed: the call returns None.
execute_action_raised_swallowing(b, e, t) ==
    [breaker |-> record_failure(b, t),
     recorded |-> <<"record_failure">>,
     ret |-> Some("None"), raised |-> None]

execute_action_raised(b, e, t) ==
    [breaker |-> record_failure(b, t),
     recorded |-> <<"record_failure">>,
     ret |-> None, raised |-> Some(e)]

\* asyncio.sleep(wait_time) is cancelled: CancelledError leaves the call from the
\* await, which is before the try block.
execute_cancelled(b, l) ==
    [breaker |-> b, limiter |-> l,
     recorded |-> << >>, invoked |-> FALSE,
     ret |-> None, raised |-> Some("CancelledError")]

----------------------------------------------------------------------------
(* Inputs explored for the risk engine *)

Amounts == {10, 20, 2000}
Totals == {0, 912, 960, 1000}

\* TradeRequest: __post_init__ admits only amount > 0.
Requests == [amount : Amounts, is_demo : BOOLEAN]

\* Balance: __post_init__ admits only 0 <= available_balance <= total_balance.
Balances == {[total_balance |-> b, available_balance |-> b] : b \in Totals}

\* TradeResult: is_win is Optional[bool]; the timestamp is the caller's, here the
\* present instant or the same time the day before.
Settled == {"True", "False"}
Outcomes == {"True", "False", "None"}
TradeResults(outcomes, t) == [is_win : outcomes, timestamp : {t, t - 24 * 60 * 60}]

TodaysTrades(s, t) == SelectSeq(s.trade_history, LAMBDA trade : Date(trade.timestamp) = Date(t))

----------------------------------------------------------------------------
(* The risk engine's operations as steps *)

ValidateTradeRequestOf(request, balance) ==
    LET r == validate_trade_request(rm, config, request, balance, now)
    IN  /\ last_op' = "validate_trade_request"
        /\ rm' = r.state
        /\ last_ret' = r.ret
        /\ UNCHANGED <<sp, now, config, gateVars, apiVars, last_found>>

RecordTradeResultOf(trade_result) ==
    /\ Len(TodaysTrades(rm, now)) < MaxHistory
    /\ last_op' = "record_trade_result"
    /\ rm' = record_trade_result(rm, config, trade_result, now)
    /\ last_ret' = None
    /\ UNCHANGED <<sp, now, config, gateVars, apiVars, last_found>>

IsTradingPaused ==
    LET r == is_trading_paused(rm, now)
    IN  /\ last_op' = "is_trading_paused"
        /\ rm' = r.state
        /\ last_ret' = r.ret
        /\ UNCHANGED <<sp, now, config, gateVars, apiVars, last_found>>

ResumeTrading ==
    LET r == resume_trading(rm)
    IN  /\ last_op' = "resume_trading"
        /\ rm' = r.state
        /\ last_ret' = r.ret
        /\ UNCHANGED <<sp, now, config, gateVars, apiVars, last_found>>

ResetDailyMetricsOf(new_balance) ==
    /\ last_op' = "reset_daily_metrics"
    /\ rm' = reset_daily_metrics(rm, new_balance)
    /\ last_ret' = None
    /\ UNCHANGED <<sp, now, config, gateVars, apiVars, last_found>>

TickRisk ==
    /\ now < StartSecond + MaxTicks * RiskTick
    /\ now' = now + RiskTick
    /\ UNCHANGED <<sp, config, rm, gateVars, apiVars, last_op, last_ret, last_found>>

----------------------------------------------------------------------------

TradingConfigs ==
    [max_daily_loss_percent : {MaxDailyLossPercent},
     max_trade_percent : {MaxTradePercent},
     consecutive_loss_limit : {ConsecutiveLossLimit},
     demo_mode : BOOLEAN]

NoGate ==
    /\ breaker = None
    /\ limiter = None
    /\ pc = None
    /\ wake = None
    /\ admitted = None
    /\ found = None
    /\ calls = 0
    /\ api = None
    /\ sp = None
    /\ task = None

Init ==
    /\ now = StartSecond
    /\ config \in TradingConfigs
    /\ rm = RiskManagerInit
    /\ NoGate
    /\ last_op = "__init__"
    /\ last_ret = None
    /\ last_found = None

(* The risk engine under every request and balance explored, with trades that *)
(* have settled.                                                              *)

ValidateTradeRequest ==
    \E request \in Requests, balance \in Balances : ValidateTradeRequestOf(request, balance)

RecordTradeResult ==
    \E trade_result \in TradeResults(Settled, now) : RecordTradeResultOf(trade_result)

ResetDailyMetrics ==
    \E new_balance \in Totals : ResetDailyMetricsOf(new_balance)

NextRisk ==
    \/ ValidateTradeRequest
    \/ RecordTradeResult
    \/ IsTradingPaused
    \/ ResumeTrading
    \/ ResetDailyMetrics
    \/ TickRisk

SpecRisk == Init /\ [][NextRisk]_vars

(* The risk engine under trades of every outcome, settled or not, with the    *)
(* requests and balances that reach the loss checks.                          *)

StreakRequests == [amount : {10}, is_demo : BOOLEAN]
StreakBalances == {[total_balance |-> b, available_balance |-> b] : b \in {912, 960}}

ValidateStreakRequest ==
    \E request \in StreakRequests, balance \in StreakBalances :
        ValidateTradeRequestOf(request, balance)

RecordAnyTradeResult ==
    \E trade_result \in TradeResults(Outcomes, now) : RecordTradeResultOf(trade_result)

ResetStreakMetrics ==
    \E new_balance \in {960} : ResetDailyMetricsOf(new_balance)

NextStreak ==
    \/ ValidateStreakRequest
    \/ RecordAnyTradeResult
    \/ IsTradingPaused
    \/ ResumeTrading
    \/ ResetStreakMetrics
    \/ TickRisk

SpecStreak == Init /\ [][NextStreak]_vars

(* The risk engine queried for its metrics between trades of every outcome *)

MetricBalances == {0, 960, 1000}

GetRiskMetrics ==
    \E current_balance \in MetricBalances :
        LET r == get_risk_metrics(rm, current_balance)
        IN  /\ last_op' = "get_risk_metrics"
            /\ rm' = r.state
            /\ last_ret' = r.ret
            /\ UNCHANGED <<sp, now, config, gateVars, apiVars, last_found>>

NextMetrics ==
    \/ GetRiskMetrics
    \/ RecordAnyTradeResult
    \/ IsTradingPaused
    \/ ResumeTrading
    \/ TickRisk

SpecMetrics == Init /\ [][NextMetrics]_vars

----------------------------------------------------------------------------

(* Threads recording trades on one RiskManager while its metrics are read *)

Threads == {"th1", "th2"}

\* A thread outside record_trade_result, with the trades its calls have recorded.
Outside(returned) == [pc |-> "idle", trade_result |-> None, todays |-> None,
                      returned |-> returned]

InitRecord ==
    /\ now = StartSecond
    /\ config \in {c \in TradingConfigs : c.demo_mode}
    /\ rm = RiskManagerInit
    /\ breaker = None
    /\ limiter = None
    /\ pc = None
    /\ wake = None
    /\ admitted = None
    /\ found = None
    /\ calls = 0
    /\ api = None
    /\ sp = None
    /\ task = [k \in Threads |-> Outside({})]
    /\ last_op = "__init__"
    /\ last_ret = None
    /\ last_found = None

\* line 163, with a trade of this instant that the call number identifies
RecordAppend(k) ==
    \E is_win \in Settled :
        LET trade_result == [is_win |-> is_win, timestamp |-> now, trade_id |-> calls + 1]
        IN  /\ task[k].pc = "idle"
            /\ calls < MaxRecordCalls
            /\ calls' = calls + 1
            /\ rm' = record_append(rm, trade_result)
            /\ task' = [task EXCEPT ![k].pc = "appended",
                                    ![k].trade_result = Some(trade_result)]
            /\ UNCHANGED <<sp, now, config, breaker, limiter, pc, wake, admitted, found, api,
                           last_op, last_ret, last_found>>

\* lines 166-170, the right-hand side
RecordTodays(k) ==
    /\ task[k].pc = "appended"
    /\ task' = [task EXCEPT ![k].pc = "built", ![k].todays = Some(record_todays(rm, now))]
    /\ UNCHANGED <<sp, now, config, rm, gateVars, api, last_op, last_ret, last_found>>

\* line 167, the assignment
RecordAssign(k) ==
    /\ task[k].pc = "built"
    /\ rm' = record_assign(rm, Val(task[k].todays))
    /\ task' = [task EXCEPT ![k].pc = "assigned", ![k].todays = None]
    /\ UNCHANGED <<sp, now, config, gateVars, api, last_op, last_ret, last_found>>

\* lines 173-177, and the return
RecordCheck(k) ==
    /\ task[k].pc = "assigned"
    /\ rm' = record_check(rm, config, now)
    /\ task' = [task EXCEPT ![k] = Outside(task[k].returned \cup {Val(task[k].trade_result)})]
    /\ UNCHANGED <<sp, now, config, gateVars, api, last_op, last_ret, last_found>>

\* get_risk_metrics between the statements of the recording threads
GetRiskMetricsOnce ==
    /\ last_op # "get_risk_metrics"
    /\ GetRiskMetrics

NextRecord ==
    \/ \E k \in Threads : RecordAppend(k)
    \/ \E k \in Threads : RecordTodays(k)
    \/ \E k \in Threads : RecordAssign(k)
    \/ \E k \in Threads : RecordCheck(k)
    \/ GetRiskMetricsOnce

SpecRecord == InitRecord /\ [][NextRecord]_vars

----------------------------------------------------------------------------

(* calculate_position_size under every balance and risk percentage explored *)

\* Balances in hundredths: negative, nothing, below the floor of 1.00, around
\* it, and 1000.00; none of them puts a size above the floor midway between two
\* hundredths, where the binary value of the float decides the rounding.
SizeBalances == {-100000, -30, 0, 30, 4999, 5010, 5030, 9985, 100000}
RiskPercents == {None, Some(-1), Some(1), Some(2), Some(3), Some(5)}

SizeConfigs ==
    [max_daily_loss_percent : {MaxDailyLossPercent},
     max_trade_percent : {1, MaxTradePercent, 3},
     consecutive_loss_limit : {ConsecutiveLossLimit},
     demo_mode : {TRUE}]

InitSize ==
    /\ now = StartSecond
    /\ config \in SizeConfigs
    /\ rm = RiskManagerInit
    /\ NoGate
    /\ last_op = "__init__"
    /\ last_ret = None
    /\ last_found = None

CalculatePositionSize ==
    \E balance \in SizeBalances, risk_percent \in RiskPercents :
        /\ last_op' = "calculate_position_size"
        /\ last_ret' = [balance |-> balance, risk_percent |-> risk_percent,
                        size |-> calculate_position_size(config, balance, risk_percent)]
        /\ UNCHANGED <<sp, now, config, rm, gateVars, apiVars, last_found>>

NextSize == CalculatePositionSize

SpecSize == InitSize /\ [][NextSize]_vars

----------------------------------------------------------------------------
(* One CircuitBreaker called directly *)

\* Seconds per advance of the clock in the runs of the breaker and of the gate:
\* one breaker timeout, which is also one limiter window.
GateTick == DefaultTimeout

Thresholds == {1, 3, DefaultFailureThreshold}

TickGate ==
    /\ now < StartSecond + MaxGateTicks * GateTick
    /\ now' = now + GateTick
    /\ UNCHANGED <<sp, riskVars, gateVars, apiVars, last_op, last_ret, last_found>>

InitBreaker ==
    /\ now = StartSecond
    /\ config \in {c \in TradingConfigs : c.demo_mode}
    /\ rm = RiskManagerInit
    /\ breaker \in {CircuitBreaker(th, DefaultTimeout) : th \in Thresholds}
    /\ limiter = None
    /\ pc = None
    /\ wake = None
    /\ admitted = None
    /\ found = None
    /\ calls = 0
    /\ api = None
    /\ sp = None
    /\ task = None
    /\ last_op = "__init__"
    /\ last_ret = None
    /\ last_found = None

BreakerRecordSuccess ==
    /\ last_op' = "record_success"
    /\ breaker' = record_success(breaker)
    /\ last_ret' = None
    /\ last_found' = breaker.state
    /\ UNCHANGED <<sp, now, riskVars, apiVars, limiter, pc, wake, admitted, found, calls>>

BreakerRecordFailure ==
    /\ breaker.failure_count < MaxFailures
    /\ last_op' = "record_failure"
    /\ breaker' = record_failure(breaker, now)
    /\ last_ret' = None
    /\ last_found' = breaker.state
    /\ UNCHANGED <<sp, now, riskVars, apiVars, limiter, pc, wake, admitted, found, calls>>

BreakerCanExecute ==
    LET r == can_execute(breaker, now)
    IN  /\ last_op' = "can_execute"
        /\ breaker' = r.breaker
        /\ last_ret' = r.ret
        /\ last_found' = breaker.state
    /\ UNCHANGED <<sp, now, riskVars, apiVars, limiter, pc, wake, admitted, found, calls>>

NextBreaker ==
    \/ BreakerRecordSuccess
    \/ BreakerRecordFailure
    \/ BreakerCanExecute
    \/ TickGate

SpecBreaker == InitBreaker /\ [][NextBreaker]_vars

----------------------------------------------------------------------------
(* One RateLimiter called directly *)

LimiterTick == TimeWindow \div 2

InitLimiter ==
    /\ now = StartSecond
    /\ config \in {c \in TradingConfigs : c.demo_mode}
    /\ rm = RiskManagerInit
    /\ breaker = None
    /\ limiter \in {RateLimiter(m, TimeWindow) : m \in 1..MaxRequests}
    /\ pc = None
    /\ wake = None
    /\ admitted = None
    /\ found = None
    /\ calls = 0
    /\ api = None
    /\ sp = None
    /\ task = None
    /\ last_op = "__init__"
    /\ last_ret = None
    /\ last_found = None

\* last_found keeps the limiter as the call found it.
LimiterCanMakeRequest ==
    LET r == can_make_request(limiter, now)
    IN  /\ last_op' = "can_make_request"
        /\ limiter' = r.limiter
        /\ last_ret' = r.ret
        /\ last_found' = limiter
        /\ UNCHANGED <<sp, now, riskVars, apiVars, breaker, pc, wake, admitted, found, calls>>

LimiterRecordRequest ==
    /\ Len(limiter.requests) < MaxRecorded
    /\ last_op' = "record_request"
    /\ limiter' = record_request(limiter, now)
    /\ last_ret' = None
    /\ last_found' = limiter
    /\ UNCHANGED <<sp, now, riskVars, apiVars, breaker, pc, wake, admitted, found, calls>>

LimiterWaitTime ==
    LET r == wait_time(limiter, now)
    IN  /\ last_op' = "wait_time"
        /\ limiter' = r.limiter
        /\ last_ret' = r.ret
        /\ last_found' = limiter
        /\ UNCHANGED <<sp, now, riskVars, apiVars, breaker, pc, wake, admitted, found, calls>>

TickLimiter ==
    /\ now < StartSecond + MaxLimiterTicks * LimiterTick
    /\ now' = now + LimiterTick
    /\ UNCHANGED <<sp, riskVars, gateVars, apiVars, last_op, last_ret, last_found>>

NextLimiter ==
    \/ LimiterCanMakeRequest
    \/ LimiterRecordRequest
    \/ LimiterWaitTime
    \/ TickLimiter

SpecLimiter == InitLimiter /\ [][NextLimiter]_vars

----------------------------------------------------------------------------
(* One gate (a breaker and a limiter) under concurrent callers *)

Callers == 1..NumCallers
GateThresholds == {1, 2}

InitGate ==
    /\ now = StartSecond
    /\ config \in {c \in TradingConfigs : c.demo_mode}
    /\ rm = RiskManagerInit
    /\ breaker \in {CircuitBreaker(th, DefaultTimeout) : th \in GateThresholds}
    /\ limiter \in {RateLimiter(m, TimeWindow) : m \in 1..MaxRequests}
    /\ pc = [c \in Callers |-> "idle"]
    /\ wake = [c \in Callers |-> 0]
    /\ admitted = [c \in Callers |-> ""]
    /\ found = [c \in Callers |-> ""]
    /\ calls = 0
    /\ api = None
    /\ sp = None
    /\ task = None
    /\ last_op = "__init__"
    /\ last_ret = None
    /\ last_found = None

\* A caller starts _execute_with_circuit_breaker and runs to its first await, or
\* to the circuit-open exception.
ExecuteBegin(c) ==
    LET r == execute_begin(breaker, limiter, now)
    IN  /\ pc[c] = "idle"
        /\ calls < MaxCalls
        /\ calls' = calls + 1
        /\ breaker' = r.breaker
        /\ limiter' = r.limiter
        /\ pc' = [pc EXCEPT ![c] = IF r.pc = "raised" THEN "idle" ELSE r.pc]
        /\ wake' = [wake EXCEPT ![c] = r.wake]
        /\ admitted' = [admitted EXCEPT ![c] = IF r.pc = "raised" THEN "" ELSE r.breaker.state]
        /\ found' = [found EXCEPT ![c] = IF r.pc = "raised" THEN "" ELSE breaker.state]
        /\ last_op' = "_execute_with_circuit_breaker"
        /\ last_ret' = IF r.pc = "raised" THEN "circuit breaker is OPEN" ELSE r.pc
        /\ UNCHANGED <<sp, now, riskVars, apiVars, last_found>>

\* asyncio.sleep(wait_time) ends, at wake or later; the request is recorded and
\* the action awaited.
ExecuteWake(c) ==
    /\ pc[c] = "sleeping"
    /\ now >= wake[c]
    /\ limiter' = execute_after_sleep(limiter, now)
    /\ pc' = [pc EXCEPT ![c] = "action"]
    /\ last_op' = "_execute_with_circuit_breaker"
    /\ last_ret' = "action"
    /\ UNCHANGED <<sp, now, riskVars, apiVars, breaker, wake, admitted, found, calls, last_found>>

\* What the awaited actions return and the exceptions they raise.
Results == {"market data", "trade result"}
Causes == {"ConnectionError", "TimeoutError"}

\* The awaited action returns: record_success, return result.
ActionReturns(c) ==
    \E result \in Results :
        LET r == execute_action_returned(breaker, result)
        IN  /\ pc[c] = "action"
            /\ breaker' = r.breaker
            /\ pc' = [pc EXCEPT ![c] = "idle"]
            /\ admitted' = [admitted EXCEPT ![c] = ""]
            /\ found' = [found EXCEPT ![c] = ""]
            /\ last_op' = "_execute_with_circuit_breaker"
            /\ last_ret' = Val(r.ret)
            /\ UNCHANGED <<sp, now, riskVars, apiVars, limiter, wake, calls, last_found>>

\* The awaited action raises: record_failure, raise.
ActionRaises(c) ==
    \E e \in Causes :
        LET r == execute_action_raised(breaker, e, now)
        IN  /\ pc[c] = "action"
            /\ breaker' = r.breaker
            /\ pc' = [pc EXCEPT ![c] = "idle"]
            /\ admitted' = [admitted EXCEPT ![c] = ""]
            /\ found' = [found EXCEPT ![c] = ""]
            /\ last_op' = "_execute_with_circuit_breaker"
            /\ last_ret' = Val(r.raised)
            /\ UNCHANGED <<sp, now, riskVars, apiVars, limiter, wake, calls, last_found>>

\* The caller's task is cancelled while it sleeps: CancelledError leaves the call.
ExecuteCancelled(c) ==
    LET r == execute_cancelled(breaker, limiter)
    IN  /\ pc[c] = "sleeping"
        /\ breaker' = r.breaker
        /\ limiter' = r.limiter
        /\ pc' = [pc EXCEPT ![c] = "idle"]
        /\ admitted' = [admitted EXCEPT ![c] = ""]
        /\ found' = [found EXCEPT ![c] = ""]
        /\ last_op' = "_execute_with_circuit_breaker"
        /\ last_ret' = Val(r.raised)
        /\ last_found' = found[c]
        /\ UNCHANGED <<sp, now, riskVars, apiVars, wake, calls>>

NextGate ==
    \/ \E c \in Callers : ExecuteBegin(c)
    \/ \E c \in Callers : ExecuteWake(c)
    \/ \E c \in Callers : ActionReturns(c)
    \/ \E c \in Callers : ActionRaises(c)
    \/ \E c \in Callers : ExecuteCancelled(c)
    \/ TickGate

SpecGate == InitGate /\ [][NextGate]_vars

----------------------------------------------------------------------------
(* APIManager: one breaker and one limiter per API, and the methods that call *)
(* the APIs through them.  The tasks run on one event loop: a task runs from   *)
(* one await to the next, and time.sleep holds the loop's thread.              *)

PocketOptionMaxRequests == 60   \* pocket_option_limiter
AlphaVantageMaxRequests == 5    \* alpha_vantage_limiter
TelegramMaxRequests == 30       \* telegram_limiter

Gates == {"pocket_option", "alpha_vantage", "telegram"}

MaxRequestsOf(g) ==
    CASE g = "pocket_option" -> PocketOptionMaxRequests
      [] g = "alpha_vantage" -> AlphaVantageMaxRequests
      [] g = "telegram" -> TelegramMaxRequests

APIManagerInit ==
    [breaker |-> [g \in Gates |-> CircuitBreaker(DefaultFailureThreshold, DefaultTimeout)],
     limiter |-> [g \in Gates |-> RateLimiter(MaxRequestsOf(g), TimeWindow)]]

\* The methods that go through _execute_with_circuit_breaker, and the one that
\* carries its own copy of it.
AsyncMethods == {"get_market_data", "place_trade", "get_account_balance", "validate_signal"}

\* The breaker and limiter each method hands to the gate.
GateOf(method) ==
    CASE method = "get_market_data" -> "pocket_option"
      [] method = "place_trade" -> "pocket_option"
      [] method = "get_account_balance" -> "pocket_option"
      [] method = "validate_signal" -> "alpha_vantage"
      [] method = "send_notification" -> "telegram"

\* An async method from its call to the first await of the gate.
method_begin(a, method, t) ==
    LET g == GateOf(method)
        r == execute_begin(a.breaker[g], a.limiter[g], t)
    IN  [api |-> [a EXCEPT !.breaker[g] = r.breaker, !.limiter[g] = r.limiter],
         pc |-> r.pc, wake |-> r.wake]

method_after_sleep(a, method, t) ==
    LET g == GateOf(method)
    IN  [a EXCEPT !.limiter[g] = execute_after_sleep(a.limiter[g], t)]

method_action_returned(a, method, result) ==
    LET g == GateOf(method)
        r == execute_action_returned(a.breaker[g], result)
    IN  [api |-> [a EXCEPT !.breaker[g] = r.breaker], ret |-> r.ret, raised |-> r.raised]

method_action_raised(a, method, e, t) ==
    LET g == GateOf(method)
        r == execute_action_raised(a.breaker[g], e, t)
    IN  [api |-> [a EXCEPT !.breaker[g] = r.breaker], ret |-> r.ret, raised |-> r.raised]

\* What session.post brings back: a status code, or an exception.
Responses == {"200", "500", "ConnectionError"}

\* send_notification from time.sleep, or from the limiter's consent, to its return.
send_notification_post(a, response, t) ==
    LET l1 == record_request(a.limiter["telegram"], t)
        b1 == IF response = "200"
              THEN record_success(a.breaker["telegram"])
              ELSE record_failure(a.breaker["telegram"], t)
    IN  [api |-> [a EXCEPT !.breaker["telegram"] = b1, !.limiter["telegram"] = l1],
         pc |-> "returned", wake |-> 0, ret |-> response = "200"]

\* send_notification with its credentials configured and mock_mode off, from its
\* call to its return or to time.sleep.
send_notification(a, response, t) ==
    LET ce == can_execute(a.breaker["telegram"], t)
        cm == can_make_request(a.limiter["telegram"], t)
        w == wait_time(cm.limiter, t)
        a1 == [a EXCEPT !.breaker["telegram"] = ce.breaker]
    IN  IF ~ce.ret
        THEN [api |-> a1, pc |-> "returned", wake |-> 0, ret |-> FALSE]
        ELSE IF ~cm.ret /\ w.ret > 0
        THEN [api |-> [a1 EXCEPT !.limiter["telegram"] = w.limiter],
              pc |-> "time.sleep", wake |-> t + w.ret, ret |-> FALSE]
        ELSE IF ~cm.ret
        THEN send_notification_post([a1 EXCEPT !.limiter["telegram"] = w.limiter], response, t)
        ELSE send_notification_post([a1 EXCEPT !.limiter["telegram"] = cm.limiter], response, t)

----------------------------------------------------------------------------
(* The APIManager's methods as steps of the tasks of one event loop *)

MaxMethodCalls == 6     \* calls of the async methods started in one run
MaxMethodTicks == 1     \* clock advances explored for the APIManager

Tasks == {"t1", "t2"}

Idle == [method |-> "", pc |-> "idle", wake |-> 0]

\* No task is inside time.sleep: the thread of the event loop is free to run a
\* task.
ThreadFree == \A k \in Tasks : task[k].pc # "time.sleep"

InitMethods ==
    /\ now = StartSecond
    /\ config \in {c \in TradingConfigs : c.demo_mode}
    /\ rm = RiskManagerInit
    /\ breaker = None
    /\ limiter = None
    /\ pc = None
    /\ wake = None
    /\ admitted = None
    /\ found = None
    /\ calls = 0
    /\ api = APIManagerInit
    /\ sp = None
    /\ task = [k \in Tasks |-> Idle]
    /\ last_op = "__init__"
    /\ last_ret = None
    /\ last_found = None

MethodBegin(k, method) ==
    LET r == method_begin(api, method, now)
    IN  /\ ThreadFree
        /\ task[k].pc = "idle"
        /\ calls < MaxMethodCalls
        /\ calls' = calls + 1
        /\ api' = r.api
        /\ task' = [task EXCEPT ![k] = IF r.pc = "raised" THEN Idle
                                       ELSE [method |-> method, pc |-> r.pc, wake |-> r.wake]]
        /\ UNCHANGED <<sp, now, riskVars, breaker, limiter, pc, wake, admitted, found, last_op, last_ret, last_found>>

MethodWake(k) ==
    /\ ThreadFree
    /\ task[k].pc = "sleeping"
    /\ now >= task[k].wake
    /\ api' = method_after_sleep(api, task[k].method, now)
    /\ task' = [task EXCEPT ![k].pc = "action"]
    /\ UNCHANGED <<sp, now, riskVars, gateVars, last_op, last_ret, last_found>>

MethodActionReturns(k) ==
    \E result \in Results :
        LET r == method_action_returned(api, task[k].method, result)
        IN  /\ ThreadFree
            /\ task[k].pc = "action"
            /\ api' = r.api
            /\ task' = [task EXCEPT ![k] = Idle]
            /\ UNCHANGED <<sp, now, riskVars, gateVars, last_op, last_ret, last_found>>

MethodActionRaises(k) ==
    \E e \in Causes :
        LET r == method_action_raised(api, task[k].method, e, now)
        IN  /\ ThreadFree
            /\ task[k].pc = "action"
            /\ api' = r.api
            /\ task' = [task EXCEPT ![k] = Idle]
            /\ UNCHANGED <<sp, now, riskVars, gateVars, last_op, last_ret, last_found>>

MethodCancelled(k) ==
    /\ ThreadFree
    /\ task[k].pc = "sleeping"
    /\ task' = [task EXCEPT ![k] = Idle]
    /\ UNCHANGED <<sp, now, riskVars, gateVars, api, last_op, last_ret, last_found>>

\* A task calls send_notification: it returns, or enters time.sleep.
SendNotificationOf(k, response) ==
    LET r == send_notification(api, response, now)
    IN  /\ ThreadFree
        /\ task[k].pc = "idle"
        /\ api' = r.api
        /\ task' = [task EXCEPT ![k] = IF r.pc = "time.sleep"
                                       THEN [method |-> "send_notification", pc |-> r.pc,
                                             wake |-> r.wake]
                                       ELSE Idle]
        /\ UNCHANGED <<sp, now, riskVars, breaker, limiter, pc, wake, admitted, found, last_op, last_ret, last_found>>

\* time.sleep(wait_time) ends: the request is recorded and posted.
SendNotificationWakeOf(k, response) ==
    LET r == send_notification_post(api, response, now)
    IN  /\ task[k].pc = "time.sleep"
        /\ now >= task[k].wake
        /\ api' = r.api
        /\ task' = [task EXCEPT ![k] = Idle]
        /\ UNCHANGED <<sp, now, riskVars, gateVars, last_op, last_ret, last_found>>

TickMethods ==
    /\ now < StartSecond + MaxMethodTicks * GateTick
    /\ now' = now + GateTick
    /\ UNCHANGED <<sp, riskVars, gateVars, apiVars, last_op, last_ret, last_found>>

(* The methods of every class under concurrent tasks, a bounded number of calls *)

SendNotification ==
    \E k \in Tasks, response \in Responses :
        /\ calls < MaxMethodCalls
        /\ calls' = calls + 1
        /\ SendNotificationOf(k, response)

NextMethods ==
    \/ \E k \in Tasks, method \in AsyncMethods : MethodBegin(k, method)
    \/ \E k \in Tasks : MethodWake(k)
    \/ \E k \in Tasks : MethodActionReturns(k)
    \/ \E k \in Tasks : MethodActionRaises(k)
    \/ \E k \in Tasks : MethodCancelled(k)
    \/ SendNotification
    \/ TickMethods

SpecMethods == InitMethods /\ [][NextMethods]_vars

(* Notifications that Telegram accepts, as many as the limiter lets through,   *)
(* beside the calls of one other class                                         *)

MaxTradeCalls == 1      \* place_trade calls started beside the notifications

PlaceTradeBegins ==
    \E k \in Tasks :
        /\ calls < MaxTradeCalls
        /\ MethodBegin(k, "place_trade")

SendAcceptedNotification ==
    \E k \in Tasks :
        /\ UNCHANGED calls
        /\ SendNotificationOf(k, "200")

NextNotify ==
    \/ PlaceTradeBegins
    \/ \E k \in Tasks : MethodActionReturns(k)
    \/ \E k \in Tasks : MethodActionRaises(k)
    \/ SendAcceptedNotification
    \/ \E k \in Tasks : SendNotificationWakeOf(k, "200")
    \/ TickMethods

SpecNotify == InitMethods /\ [][NextNotify]_vars

----------------------------------------------------------------------------
(* SignalProcessor (backend/signal_processor.py).  Prices are whole numbers;   *)
(* the floats computed from them (rsi, sma, confidence) are exact fractions    *)
(* num / den in lowest terms with den > 0.                                     *)

RECURSIVE GCD(_, _)
GCD(a, b) == IF b = 0 THEN a ELSE GCD(b, a % b)

Abs(n) == IF n < 0 THEN -n ELSE n

Frac(n, d) ==
    LET g == GCD(Abs(n), Abs(d))
        sign == IF d < 0 THEN -1 ELSE 1
    IN  [num |-> sign * (n \div g), den |-> sign * (d \div g)]

FInt(n) == Frac(n, 1)
FLt(x, y) == x.num * y.den < y.num * x.den
FLe(x, y) == x.num * y.den <= y.num * x.den
FAdd(x, y) == Frac(x.num * y.den + y.num * x.den, x.den * y.den)
FSub(x, y) == Frac(x.num * y.den - y.num * x.den, x.den * y.den)
FMul(x, y) == Frac(x.num * y.num, x.den * y.den)
FDiv(x, y) == Frac(x.num * y.den, x.den * y.num)
FMin(x, y) == IF FLe(x, y) THEN x ELSE y
FMax(x, y) == IF FLe(y, x) THEN x ELSE y
FAbs(x) == Frac(Abs(x.num), x.den)

\* A local variable: Body of the value, which is computed once.
With(value, Body(_)) == Body(value)

\* What a call brings back: a value, or an exception.
Returns(value) == [raised |-> "", value |-> value]
Raises(e) == [raised |-> e]

SignalProcessorInit(rsi_period, sma_period) ==
    [rsi_period |-> rsi_period,
     sma_period |-> sma_period,
     rsi_oversold_threshold |-> 30,
     rsi_overbought_threshold |-> 70]

rsi_weight == Frac(4, 10)
sma_weight == Frac(3, 10)
validation_weight == Frac(3, 10)

\* sum(values[from_:to])
SumOf(values, from_, to) ==
    LET walk[k \in (from_ - 1)..to] ==
            IF k < from_ THEN 0 ELSE walk[k - 1] + values[k]
    IN  IF to < from_ THEN 0 ELSE walk[to]

\* calculate_rsi: avg_gain and avg_loss are kept over one common denominator
\* (scale), which the relative strength avg_gain / avg_loss does not depend on.
smoothed_averages(prices, period) ==
    LET deltas == [i \in 1..(Len(prices) - 1) |-> prices[i + 1] - prices[i]]
        gains == [i \in 1..Len(deltas) |-> IF deltas[i] > 0 THEN deltas[i] ELSE 0]
        losses == [i \in 1..Len(deltas) |-> IF deltas[i] < 0 THEN -deltas[i] ELSE 0]
        \* after the prices up to gains[k]: avg_gain = gain / scale, avg_loss = loss / scale
        avg[k \in period..Len(gains)] ==
            IF k = period
            THEN [gain |-> SumOf(gains, 1, period), loss |-> SumOf(losses, 1, period),
                  scale |-> period]
            ELSE [gain |-> avg[k - 1].gain * (period - 1) + gains[k] * avg[k - 1].scale,
                  loss |-> avg[k - 1].loss * (period - 1) + losses[k] * avg[k - 1].scale,
                  scale |-> avg[k - 1].scale * period]
    IN  avg[Len(gains)]

\* calculate_rsi dividing avg_gain by avg_loss whatever avg_loss is.
calculate_rsi_dividing_by_zero(s, prices, period_) ==
    LET period == IF period_ = None THEN s.rsi_period ELSE Val(period_)
    IN  IF Len(prices) < period + 1 THEN Raises("ValueError")
        ELSE IF period <= 0 THEN Raises("ValueError")
        ELSE IF prices = << >> \/ \E i \in 1..Len(prices) : prices[i] <= 0
        THEN Raises("ValueError")
        ELSE IF Len(prices) - 1 < period THEN Raises("ValueError")
        ELSE With(smoothed_averages(prices, period), LAMBDA avg :
                 IF avg.loss = 0 THEN Raises("ZeroDivisionError")
                 ELSE Returns(Frac(100 * avg.gain, avg.gain + avg.loss)))

calculate_rsi(s, prices, period_) ==
    LET period == IF period_ = None THEN s.rsi_period ELSE Val(period_)
    IN  IF Len(prices) < period + 1 THEN Raises("ValueError")
        ELSE IF period <= 0 THEN Raises("ValueError")
        ELSE IF prices = << >> \/ \E i \in 1..Len(prices) : prices[i] <= 0
        THEN Raises("ValueError")
        ELSE IF Len(prices) - 1 < period THEN Raises("ValueError")  \* len(gains) < period
        ELSE With(smoothed_averages(prices, period), LAMBDA avg :
                 IF avg.loss = 0 THEN Returns(FInt(100))
                 \* rs = avg_gain / avg_loss; 100 - (100 / (1 + rs))
                 ELSE Returns(Frac(100 * avg.gain, avg.gain + avg.loss)))

calculate_sma(s, prices, period_) ==
    LET period == IF period_ = None THEN s.sma_period ELSE Val(period_)
    IN  IF Len(prices) < period THEN Raises("ValueError")
        ELSE IF period <= 0 THEN Raises("ValueError")
        ELSE IF prices = << >> \/ \E i \in 1..Len(prices) : prices[i] <= 0
        THEN Raises("ValueError")
        ELSE Returns(Frac(SumOf(prices, Len(prices) - period + 1, Len(prices)), period))

TechnicalIndicators(rsi, sma, current_price, timestamp) ==
    [rsi |-> rsi, sma |-> sma, current_price |-> current_price, timestamp |-> timestamp]

calculate_technical_indicators(s, market_data) ==
    IF market_data = << >> THEN Raises("ValueError")
    ELSE
    LET prices == [i \in 1..Len(market_data) |-> market_data[i].close_price]
        min_required == Max(s.rsi_period + 1, s.sma_period)
    IN  IF Len(prices) < min_required THEN Raises("ValueError")
        ELSE With(calculate_rsi(s, prices, None), LAMBDA rsi :
             With(calculate_sma(s, prices, None), LAMBDA sma :
                 IF rsi.raised # "" THEN rsi
                 ELSE IF sma.raised # "" THEN sma
                 ELSE Returns(TechnicalIndicators(rsi.value, sma.value, prices[Len(prices)],
                                                  market_data[Len(market_data)].timestamp))))

\* Signal and its __post_init__
Signal(symbol, signal_type, confidence, timestamp, rsi_value, sma_value, current_price) ==
    IF ~(FLe(FInt(0), confidence) /\ FLe(confidence, FInt(1))) THEN Raises("ValueError")
    ELSE IF ~(FLe(FInt(0), rsi_value) /\ FLe(rsi_value, FInt(100))) THEN Raises("ValueError")
    ELSE IF FLt(sma_value, FInt(0)) THEN Raises("ValueError")
    ELSE IF current_price < 0 THEN Raises("ValueError")
    ELSE Returns([symbol |-> symbol, signal_type |-> signal_type, confidence |-> confidence,
                  timestamp |-> timestamp, rsi_value |-> rsi_value, sma_value |-> sma_value,
                  current_price |-> current_price])

calculate_signal_confidence(s, indicators, signal_type) ==
    IF signal_type = "BUY" /\ s.rsi_oversold_threshold = 0 THEN Frac(1, 2)    \* except: return 0.5
    ELSE IF signal_type # "BUY" /\ 100 - s.rsi_overbought_threshold = 0 THEN Frac(1, 2)
    ELSE IF indicators.sma.num = 0 THEN Frac(1, 2)
    ELSE
    LET rsi_confidence0 ==
            IF signal_type = "BUY"
            THEN FDiv(FSub(FInt(s.rsi_oversold_threshold), indicators.rsi),
                      FInt(s.rsi_oversold_threshold))
            ELSE FDiv(FSub(indicators.rsi, FInt(s.rsi_overbought_threshold)),
                      FInt(100 - s.rsi_overbought_threshold))
        rsi_confidence == FMax(FInt(0), FMin(FInt(1), rsi_confidence0))
        price_sma_diff == FAbs(FSub(FInt(indicators.current_price), indicators.sma))
        price_sma_percent == FDiv(price_sma_diff, indicators.sma)
        sma_confidence == FMin(FInt(1), FDiv(price_sma_percent, Frac(1, 100)))
        total_confidence == FAdd(FAdd(FMul(rsi_confidence, rsi_weight),
                                      FMul(sma_confidence, sma_weight)),
                                 FMul(Frac(1, 2), validation_weight))
    IN  FMax(FInt(0), FMin(FInt(1), total_confidence))

\* generate_signal deciding on the rsi alone, whatever side of the sma the
\* price is on.
generate_signal_on_rsi_alone(s, market_data) ==
    IF market_data = << >> THEN None
    ELSE
    With(calculate_technical_indicators(s, market_data), LAMBDA computed :
        IF computed.raised # "" THEN None
        ELSE
        LET indicators == computed.value
            symbol == market_data[Len(market_data)].symbol
            signal_type ==
                IF FLt(indicators.rsi, FInt(s.rsi_oversold_threshold)) THEN "BUY"
                ELSE IF FLt(FInt(s.rsi_overbought_threshold), indicators.rsi) THEN "SELL"
                ELSE "None"
        IN  IF signal_type = "None" THEN None
            ELSE With(calculate_signal_confidence(s, indicators, signal_type), LAMBDA confidence :
                 With(Signal(symbol, signal_type, confidence, indicators.timestamp,
                             indicators.rsi, indicators.sma, indicators.current_price),
                      LAMBDA signal :
                          IF signal.raised # "" THEN None ELSE Some(signal.value))))

\* generate_signal: None, or Some(signal); every exception is caught and
\* answered with None.
generate_signal(s, market_data) ==
    IF market_data = << >> THEN None
    ELSE
    With(calculate_technical_indicators(s, market_data), LAMBDA computed :
        IF computed.raised # "" THEN None
        ELSE
        LET indicators == computed.value
            symbol == market_data[Len(market_data)].symbol
            signal_type ==
                IF FLt(indicators.rsi, FInt(s.rsi_oversold_threshold))
                   /\ FLt(indicators.sma, FInt(indicators.current_price))
                THEN "BUY"
                ELSE IF FLt(FInt(s.rsi_overbought_threshold), indicators.rsi)
                        /\ FLt(FInt(indicators.current_price), indicators.sma)
                THEN "SELL"
                ELSE "None"
        IN  IF signal_type = "None" THEN None
            ELSE With(calculate_signal_confidence(s, indicators, signal_type), LAMBDA confidence :
                 With(Signal(symbol, signal_type, confidence, indicators.timestamp,
                             indicators.rsi, indicators.sma, indicators.current_price),
                      LAMBDA signal :
                          IF signal.raised # "" THEN None ELSE Some(signal.value))))

\* update_parameters: each value given is checked and assigned in turn, and the
\* order of the thresholds is checked at the end, on the values then assigned.
update_parameters(s, rsi_period, sma_period, rsi_oversold, rsi_overbought) ==
    IF rsi_period # None /\ Val(rsi_period) <= 0
    THEN [state |-> s, raised |-> "ValueError"]
    ELSE
    LET s1 == IF rsi_period # None THEN [s EXCEPT !.rsi_period = Val(rsi_period)] ELSE s
    IN  IF sma_period # None /\ Val(sma_period) <= 0
        THEN [state |-> s1, raised |-> "ValueError"]
        ELSE
        LET s2 == IF sma_period # None THEN [s1 EXCEPT !.sma_period = Val(sma_period)] ELSE s1
        IN  IF rsi_oversold # None /\ ~(0 <= Val(rsi_oversold) /\ Val(rsi_oversold) <= 100)
            THEN [state |-> s2, raised |-> "ValueError"]
            ELSE
            LET s3 == IF rsi_oversold # None
                      THEN [s2 EXCEPT !.rsi_oversold_threshold = Val(rsi_oversold)] ELSE s2
            IN  IF rsi_overbought # None
                   /\ ~(0 <= Val(rsi_overbought) /\ Val(rsi_overbought) <= 100)
                THEN [state |-> s3, raised |-> "ValueError"]
                ELSE
                LET s4 == IF rsi_overbought # None
                          THEN [s3 EXCEPT !.rsi_overbought_threshold = Val(rsi_overbought)]
                          ELSE s3
                IN  IF s4.rsi_oversold_threshold >= s4.rsi_overbought_threshold
                    THEN [state |-> s4, raised |-> "ValueError"]
                    ELSE [state |-> s4, raised |-> ""]

\* One call through the gate of an APIManager method, from its start to its
\* return or raise, the rate-limit wait included: outcome is what the awaited
\* action does, Returns(result) or Raises(e).  t is the instant of the call, and
\* the instant it ends is returned with the manager's new state.
method_call(a, method, outcome, t) ==
    With(method_begin(a, method, t), LAMBDA begun :
        IF begun.pc = "raised"
        THEN [api |-> begun.api, t |-> t, raised |-> "circuit breaker is OPEN"]
        ELSE
        LET t1 == IF begun.pc = "sleeping" THEN begun.wake ELSE t
            a1 == IF begun.pc = "sleeping" THEN method_after_sleep(begun.api, method, t1)
                  ELSE begun.api
        IN  IF outcome.raised # ""
            THEN [api |-> method_action_raised(a1, method, outcome.raised, t1).api,
                  t |-> t1, raised |-> outcome.raised]
            ELSE [api |-> method_action_returned(a1, method, outcome.value).api,
                  t |-> t1, raised |-> "", value |-> outcome.value])

validation_boost == Frac(2, 10)
validation_penalty == Frac(3, 10)

\* validate_signal_with_alpha_vantage adding the boost and subtracting the
\* penalty without bounding the result.
validate_signal_with_alpha_vantage_unbounded(a, signal, outcome, t) ==
    With(method_call(a, "validate_signal", outcome, t), LAMBDA call :
        LET new_confidence ==
            IF call.raised # "" THEN signal.confidence
            ELSE IF call.value
            THEN FAdd(signal.confidence, validation_boost)
            ELSE FSub(signal.confidence, validation_penalty)
        IN  [api |-> call.api, t |-> call.t, ret |-> new_confidence])

\* validate_signal_with_alpha_vantage discounting the confidence when the
\* validation call fails.
validate_signal_with_alpha_vantage_penalising_failure(a, signal, outcome, t) ==
    With(method_call(a, "validate_signal", outcome, t), LAMBDA call :
        LET new_confidence ==
            IF call.raised = "" /\ call.value
            THEN FMin(FInt(1), FAdd(signal.confidence, validation_boost))
            ELSE FMax(FInt(0), FSub(signal.confidence, validation_penalty))
        IN  [api |-> call.api, t |-> call.t, ret |-> new_confidence])

\* validate_signal_with_alpha_vantage: the APIManager in mock mode is not
\* modelled, the call goes through the Alpha Vantage gate.
validate_signal_with_alpha_vantage(a, signal, outcome, t) ==
    With(method_call(a, "validate_signal", outcome, t), LAMBDA call :
        LET new_confidence ==
            IF call.raised # "" THEN signal.confidence      \* except Exception
            ELSE IF call.value
            THEN FMin(FInt(1), FAdd(signal.confidence, validation_boost))
            ELSE FMax(FInt(0), FSub(signal.confidence, validation_penalty))
        IN  [api |-> call.api, t |-> call.t, ret |-> new_confidence])

\* process_market_data_and_generate_signal: fetched is what the market data
\* fetch does and answer what the validation does; ret is None or Some(signal).
\* Every exception is caught and answered with None.
process_market_data_and_generate_signal(s, a, fetched, answer, t) ==
    With(method_call(a, "get_market_data", fetched, t), LAMBDA fetch :
        IF fetch.raised # "" THEN [api |-> fetch.api, t |-> fetch.t, ret |-> None]
        ELSE IF fetch.value = << >> THEN [api |-> fetch.api, t |-> fetch.t, ret |-> None]
        ELSE
        With(generate_signal(s, fetch.value), LAMBDA signal :
            IF signal = None THEN [api |-> fetch.api, t |-> fetch.t, ret |-> None]
            ELSE
            With(validate_signal_with_alpha_vantage(fetch.api, Val(signal), answer, fetch.t),
                 LAMBDA validated :
            With(Signal(Val(signal).symbol, Val(signal).signal_type, validated.ret,
                        Val(signal).timestamp, Val(signal).rsi_value, Val(signal).sma_value,
                        Val(signal).current_price),
                 LAMBDA validated_signal :
                [api |-> validated.api, t |-> validated.t,
                 ret |-> IF validated_signal.raised # "" THEN None
                         ELSE Some(validated_signal.value)]))))

----------------------------------------------------------------------------
(* Inputs explored for the signal processor.  The periods are kept small (2  *)
(* and 3 for the constructor's 14 and 20) so that series of four closing      *)
(* prices reach every branch.                                                 *)

MarketData(symbol, timestamp, close_price) ==
    [symbol |-> symbol, timestamp |-> timestamp, close_price |-> close_price]

\* Candles one minute apart with the closing prices given.
Candles(closes) == [i \in 1..Len(closes) |-> MarketData("EURUSD", i * 60, closes[i])]

\* Falling, rising and flat runs, a run with a price of 0, and runs too short
\* for the indicators ...
Runs == {<< >>, <<90>>, <<100, 90>>, <<100, 90, 80>>, <<80, 90, 100>>, <<90, 90, 90>>,
         <<100, 0, 80>>, <<200, 150, 100>>, <<100, 150, 200>>}

\* ... each as it is and followed by a last close on either side of its average.
Closes == Runs \cup {Append(run, last) : run \in Runs, last \in {0, 79, 81, 99, 101, 110, 190}}

MarketSeries == {Candles(closes) : closes \in Closes}

PeriodArgs == {None, Some(0), Some(3)}
OversoldArgs == {None, Some(20), Some(80), Some(101)}
OverboughtArgs == {None, Some(60), Some(10)}

\* What the awaited validation action does.
Answers == {Returns(TRUE), Returns(FALSE), Raises("ConnectionError")}

----------------------------------------------------------------------------
(* The signal processor: parameter updates, signals generated from market data, *)
(* and validations of the signal last produced                                 *)

InitSignal ==
    /\ now = StartSecond
    /\ config \in {c \in TradingConfigs : c.demo_mode}
    /\ rm = RiskManagerInit
    /\ breaker = None
    /\ limiter = None
    /\ pc = None
    /\ wake = None
    /\ admitted = None
    /\ found = None
    /\ calls = 0
    /\ api = APIManagerInit
    /\ task = None
    /\ sp \in {SignalProcessorInit(2, sma_period) : sma_period \in {2, 3}}
    /\ last_op = "__init__"
    /\ last_ret = None
    /\ last_found = None

UpdateParameters ==
    \E rsi_period \in PeriodArgs, sma_period \in PeriodArgs,
       rsi_oversold \in OversoldArgs, rsi_overbought \in OverboughtArgs :
        LET r == update_parameters(sp, rsi_period, sma_period, rsi_oversold, rsi_overbought)
        IN  /\ sp' = r.state
            /\ last_op' = "update_parameters"
            /\ last_ret' = r.raised
            /\ UNCHANGED <<calls, now, riskVars, breaker, limiter, pc, wake, admitted, found, apiVars,
                           last_found>>

GenerateSignal ==
    \E market_data \in MarketSeries :
        /\ last_op' = "generate_signal"
        /\ last_ret' = generate_signal(sp, market_data)
        /\ UNCHANGED <<calls, now, riskVars, breaker, limiter, pc, wake, admitted, found, apiVars, sp,
                       last_found>>

\* validate_signal_with_alpha_vantage on the signal last produced, which then
\* carries the confidence returned.
ValidateSignal ==
    \E answer \in Answers :
        /\ last_op \in {"generate_signal", "validate_signal_with_alpha_vantage"}
        /\ last_ret # None
        /\ calls < MaxValidations
        /\ \E r \in {validate_signal_with_alpha_vantage(api, Val(last_ret), answer, now)} :
               /\ api' = r.api
               /\ now' = r.t
               /\ last_ret' = Some([Val(last_ret) EXCEPT !.confidence = r.ret])
        /\ last_op' = "validate_signal_with_alpha_vantage"
        /\ calls' = calls + 1
        /\ UNCHANGED <<riskVars, breaker, limiter, pc, wake, admitted, found, task, sp,
                       last_found>>

NextSignal ==
    \/ UpdateParameters
    \/ GenerateSignal
    \/ ValidateSignal

SpecSignal == InitSignal /\ [][NextSignal]_vars

(* The pipeline from the market data fetch to the validated signal, run again *)
(* and again on one APIManager                                                 *)

\* What the awaited market data fetch does.
Fetches == {Returns(market_data) : market_data \in MarketSeries} \cup {Raises("TimeoutError")}

ProcessMarketDataAndGenerateSignal ==
    \E fetched \in Fetches, answer \in Answers :
        \E r \in {process_market_data_and_generate_signal(sp, api, fetched, answer, now)} :
            /\ calls < MaxPipelineCalls
            /\ calls' = calls + 1
            /\ api' = r.api
            /\ now' = r.t
            /\ last_op' = "process_market_data_and_generate_signal"
            /\ last_ret' = r.ret
            /\ last_found' = Some(api.breaker["alpha_vantage"].state)
            /\ UNCHANGED <<riskVars, breaker, limiter, pc, wake, admitted, found, task, sp>>

NextPipeline == ProcessMarketDataAndGenerateSignal

SpecPipeline == InitSignal /\ [][NextPipeline]_vars

(* calculate_rsi called on its own *)

\* Every series of up to three of the prices 90, 100, 110, and longer series
\* that rise, fall, stay flat, turn, or hold a price of 0.
RsiPrices ==
    UNION {[1..n -> {90, 100, 110}] : n \in 0..3}
        \cup {<<90, 100, 110, 120>>, <<90, 100, 110, 120, 130>>, <<120, 110, 100, 90>>,
              <<100, 100, 100, 100>>, <<90, 100, 110, 100>>, <<110, 100, 110, 120>>,
              <<90, 100, 0>>, <<0, 100, 110, 120>>}

RsiPeriods == {None, Some(-1), Some(0), Some(1), Some(3)}

CalculateRsi ==
    \E prices \in RsiPrices, period \in RsiPeriods :
        /\ last_op' = "calculate_rsi"
        /\ last_ret' = [prices |-> prices, period |-> period,
                        rsi |-> calculate_rsi(sp, prices, period)]
        /\ UNCHANGED <<calls, now, riskVars, breaker, limiter, pc, wake, admitted, found, apiVars, sp,
                       last_found>>

NextRsi == CalculateRsi

SpecRsi == InitSignal /\ [][NextRsi]_vars

----------------------------------------------------------------------------
(* Claims about the risk engine *)

\* What the claims call the pause check passing: the engine is not paused, or
\* its pause has expired.
PauseInForce == rm.is_paused /\ rm.pause_until # None /\ now <= Val(rm.pause_until)
PauseCheckPasses == ~rm.is_paused \/ (rm.pause_until # None /\ now > Val(rm.pause_until))

AmountChecksPass(request, balance) ==
    /\ request.amount > 0
    /\ request.amount <= balance.available_balance
    /\ request.amount * 100 <= balance.available_balance * config.max_trade_percent

\* The number of losses since the last win of the history h.
LossesSinceLastWin(h) ==
    Cardinality({i \in 1..Len(h) :
        /\ h[i].is_win = "False"
        /\ \A j \in (i + 1)..Len(h) : h[j].is_win # "True"})

\* C1: while the engine is paused and pause_until has not passed,
\* validate_trade_request rejects every request with 'Trading is paused:
\* <reason>', whatever the amount, the balance and is_demo, and the pause stays.
C1_PausedRejectsEveryRequest ==
    PauseInForce =>
        \A request \in Requests, balance \in Balances :
            LET r == validate_trade_request(rm, config, request, balance, now)
            IN  /\ ~r.ret.is_valid
                /\ ~r.ret.raised
                /\ r.ret.error_message =
                      Msg("Trading is paused", Val(rm.pause_reason).text, Val(rm.pause_reason).n, 0)
                /\ r.state = rm

\* C1 witness: a request was rejected as paused at the very instant pause_until.
C1_Witness ==
    /\ last_op = "validate_trade_request"
    /\ last_ret.error_message.text = "Trading is paused"
    /\ rm.is_paused
    /\ now = Val(rm.pause_until)

\* C2: a record_trade_result that leaves consecutive_loss_limit or more of
\* today's losses in a row since the last win pauses the engine at once, with a
\* reason naming the consecutive-loss limit and the streak; with fewer losses in
\* a row it leaves the pause state as it was.
C2_StreakPausesOnRecord ==
    \A trade_result \in TradeResults(Outcomes, now) :
        LET after == record_trade_result(rm, config, trade_result, now)
            streak == LossesSinceLastWin(after.trade_history)
        IN  IF streak >= config.consecutive_loss_limit
            THEN /\ after.is_paused
                 /\ after.pause_reason = Some(Reason("Consecutive loss limit reached", streak))
                 /\ after.pause_until = Some(now + DefaultPauseMinutes * 60)
            ELSE /\ after.is_paused = rm.is_paused
                 /\ after.pause_reason = rm.pause_reason
                 /\ after.pause_until = rm.pause_until

\* C2 witness: the record of the loss that completes the streak has paused the
\* engine, the history holding a trade that has not settled.
C2_Witness ==
    /\ last_op = "record_trade_result"
    /\ rm.is_paused
    /\ rm.pause_reason = Some(Reason("Consecutive loss limit reached", ConsecutiveLossLimit))
    /\ rm.pause_until = Some(now + DefaultPauseMinutes * 60)
    /\ LossesSinceLastWin(rm.trade_history) = ConsecutiveLossLimit
    /\ \E i \in 1..Len(rm.trade_history) : rm.trade_history[i].is_win = "None"

\* C3: with daily_start_balance set, a request that passes the pause and amount
\* checks is rejected with 'Daily loss limit exceeded' and pauses the engine for
\* a daily-loss reason when the loss is max_daily_loss_percent of the start
\* balance or more; below that it is not rejected for the daily loss, and is
\* valid when the streak and demo checks pass.
C3_DailyLossLimit ==
    (PauseCheckPasses /\ rm.daily_start_balance # None /\ Val(rm.daily_start_balance) > 0) =>
        \A request \in Requests, balance \in Balances :
            AmountChecksPass(request, balance) =>
                LET r == validate_trade_request(rm, config, request, balance, now)
                    start == Val(rm.daily_start_balance)
                    loss == start - balance.total_balance
                IN  IF loss * 100 >= config.max_daily_loss_percent * start
                    THEN /\ ~r.ret.is_valid
                         /\ r.ret.error_message.text = "Daily loss limit exceeded"
                         /\ r.state.is_paused
                         /\ MentionsDailyLoss(Val(r.state.pause_reason))
                    ELSE /\ r.ret.error_message.text # "Daily loss limit exceeded"
                         /\ ~r.state.is_paused
                         /\ (/\ LossesSinceLastWin(rm.trade_history) < config.consecutive_loss_limit
                             /\ (config.demo_mode => request.is_demo))
                            => r.ret.is_valid

\* C3 witness: a loss of exactly max_daily_loss_percent was rejected and paused
\* the engine.
C3_Witness ==
    /\ last_op = "validate_trade_request"
    /\ last_ret.error_message =
          Msg("Daily loss limit exceeded", "", MaxDailyLossPercent * 100, MaxDailyLossPercent)
    /\ rm.is_paused
    /\ rm.pause_reason = Some(Reason("Daily loss limit exceeded", MaxDailyLossPercent * 100))

\* C4: in demo mode no request with is_demo = false is ever returned as valid.
C4_DemoModeNeverAcceptsReal ==
    config.demo_mode =>
        \A request \in Requests, balance \in Balances :
            ~request.is_demo =>
                ~validate_trade_request(rm, config, request, balance, now).ret.is_valid

\* C4 witness: a real request that passed every other check was refused for demo
\* mode.
C4_Witness ==
    /\ last_op = "validate_trade_request"
    /\ config.demo_mode
    /\ last_ret.error_message.text = "Real trading is disabled. System is in demo mode."
    /\ ~rm.is_paused

\* The error the checks of a request give when they are made in the order
\* paused, amount, share of the balance, daily loss, streak, demo mode: the text
\* of the first that fails, "" when none does.
FirstFailingCheck(request, balance) ==
    IF PauseInForce THEN "Trading is paused"
    ELSE IF request.amount <= 0 THEN "Trade amount must be positive"
    ELSE IF request.amount > balance.available_balance THEN "Insufficient balance"
    ELSE IF request.amount * 100 > balance.available_balance * config.max_trade_percent
    THEN "Trade amount exceeds maximum allowed"
    ELSE IF /\ rm.daily_start_balance # None
            /\ (Val(rm.daily_start_balance) - balance.total_balance) * 100
                   >= config.max_daily_loss_percent * Val(rm.daily_start_balance)
    THEN "Daily loss limit exceeded"
    ELSE IF LossesSinceLastWin(rm.trade_history) >= config.consecutive_loss_limit
    THEN "Consecutive loss limit reached"
    ELSE IF config.demo_mode /\ ~request.is_demo
    THEN "Real trading is disabled. System is in demo mode."
    ELSE ""

AmountErrors ==
    {"Trade amount must be positive", "Insufficient balance", "Trade amount exceeds maximum allowed"}

\* C15: validate_trade_request returns the error of the first check that fails
\* in the order paused, amount, share of the balance, daily loss, streak, demo
\* mode, and is valid when none fails; a request rejected for its amount leaves
\* daily_start_balance as it was and the engine not paused.
C15_FirstFailingCheck ==
    \A request \in Requests, balance \in Balances :
        LET r == validate_trade_request(rm, config, request, balance, now)
            first == FirstFailingCheck(request, balance)
        IN  /\ ~r.ret.raised
            /\ r.ret.error_message.text = first
            /\ r.ret.is_valid = (first = "")
            /\ first \in AmountErrors =>
                   /\ r.state.daily_start_balance = rm.daily_start_balance
                   /\ ~r.state.is_paused
                   /\ r.state.trade_history = rm.trade_history

\* The pause has a deadline that has passed: the next pause query lifts it.
PauseExpired == rm.is_paused /\ rm.pause_until # None /\ now > Val(rm.pause_until)

\* C16 as claimed: a call of validate_trade_request that returns valid leaves
\* trade_history, is_paused, pause_reason and pause_until as they were, and
\* daily_start_balance too unless it was unset, which it sets to total_balance.
C16_ValidChangesOnlyStartBalance ==
    \A request \in Requests, balance \in Balances :
        LET r == validate_trade_request(rm, config, request, balance, now)
        IN  r.ret.is_valid =>
                /\ r.state.trade_history = rm.trade_history
                /\ r.state.is_paused = rm.is_paused
                /\ r.state.pause_reason = rm.pause_reason
                /\ r.state.pause_until = rm.pause_until
                /\ r.state.daily_start_balance =
                      IF rm.daily_start_balance = None
                      THEN Some(balance.total_balance) ELSE rm.daily_start_balance

\* C16 amended: a call of validate_trade_request that returns valid leaves
\* trade_history as it was; it leaves is_paused, pause_reason and pause_until as
\* they were unless the engine was paused with pause_until passed, a pause the
\* call has lifted (is_paused false, pause_reason and pause_until unset); it
\* leaves daily_start_balance as it was unless it was unset, which it sets to
\* total_balance.
C16_ValidLiftsOnlyExpiredPause ==
    \A request \in Requests, balance \in Balances :
        LET r == validate_trade_request(rm, config, request, balance, now)
        IN  r.ret.is_valid =>
                /\ r.state.trade_history = rm.trade_history
                /\ IF PauseExpired
                   THEN /\ ~r.state.is_paused
                        /\ r.state.pause_reason = None
                        /\ r.state.pause_until = None
                   ELSE /\ r.state.is_paused = rm.is_paused
                        /\ r.state.pause_reason = rm.pause_reason
                        /\ r.state.pause_until = rm.pause_until
                /\ r.state.daily_start_balance =
                      IF rm.daily_start_balance = None
                      THEN Some(balance.total_balance) ELSE rm.daily_start_balance

\* C16 witness: a request was returned as valid by an engine that holds trades
\* of today and a start balance above the balance of the request.
C16_Witness ==
    /\ last_op = "validate_trade_request"
    /\ last_ret.is_valid
    /\ rm.trade_history # << >>
    /\ rm.daily_start_balance = Some(1000)
    /\ ~rm.is_paused

\* C17: validate_trade_request returns a ValidationResult for every request and
\* balance in every state of the engine: it never raises.
C17_NeverRaises ==
    \A request \in Requests, balance \in Balances :
        ~validate_trade_request(rm, config, request, balance, now).ret.raised

\* C18: is_trading_paused() returns true and changes nothing while the engine is
\* paused and now <= pause_until; when now > pause_until it clears is_paused,
\* pause_reason and pause_until and returns false, and so does every query
\* after it; a pause set by the daily-loss check or by the record of a trade has
\* pause_until 60 minutes after the instant of pausing.
C18_PauseExpiresLazily ==
    /\ rm.is_paused => rm.pause_until # None
    /\ LET r == is_trading_paused(rm, now)
       IN  /\ PauseInForce => (r.ret /\ r.state = rm)
           /\ PauseExpired =>
                  /\ ~r.ret
                  /\ r.state = [rm EXCEPT !.is_paused = FALSE, !.pause_reason = None,
                                          !.pause_until = None]
                  /\ is_trading_paused(r.state, now) = [state |-> r.state, ret |-> FALSE]
           /\ ~rm.is_paused => (~r.ret /\ r.state = rm)
    /\ \A trade_result \in TradeResults(Outcomes, now) :
           LET after == record_trade_result(rm, config, trade_result, now)
           IN  LossesSinceLastWin(after.trade_history) >= config.consecutive_loss_limit
                   => (after.is_paused /\ after.pause_until = Some(now + 60 * 60))
    /\ \A balance \in Balances :
           (rm.daily_start_balance # None /\ Val(rm.daily_start_balance) > 0) =>
               LET c == check_daily_limits(rm, config, balance.total_balance, now)
               IN  ~c.ret => (c.state.is_paused /\ c.state.pause_until = Some(now + 60 * 60))

\* C18 witness: a pause query at the very instant pause_until has found the
\* engine still paused.
C18_Witness ==
    /\ last_op = "is_trading_paused"
    /\ last_ret = TRUE
    /\ rm.is_paused
    /\ now = Val(rm.pause_until)

\* C19: resume_trading() returns true exactly when is_paused was set, and then
\* leaves is_paused false and pause_reason and pause_until unset; on an engine
\* that is not paused it returns false and changes nothing; it never touches
\* trade_history or daily_start_balance, and a second call in a row returns
\* false and changes nothing.
C19_ResumeReportsChange ==
    LET r == resume_trading(rm)
    IN  /\ r.ret = rm.is_paused
        /\ ~r.state.is_paused
        /\ r.state.pause_reason = None
        /\ r.state.pause_until = None
        /\ r.state.trade_history = rm.trade_history
        /\ r.state.daily_start_balance = rm.daily_start_balance
        /\ ~rm.is_paused => r.state = rm
        /\ resume_trading(r.state) = [state |-> r.state, ret |-> FALSE]

\* C19 witness: resume_trading() has lifted a pause that was in force and
\* reported the change; the streak that caused it is still in the history.
C19_Witness ==
    /\ last_op = "resume_trading"
    /\ last_ret = TRUE
    /\ ~rm.is_paused
    /\ rm.pause_reason = None
    /\ rm.pause_until = None
    /\ LossesSinceLastWin(rm.trade_history) >= config.consecutive_loss_limit

\* C20: reset_daily_metrics(b) sets daily_start_balance to b and empties
\* trade_history; it lifts the pause when the engine is paused for a daily-loss
\* reason and otherwise leaves is_paused, pause_reason and pause_until as they
\* were, so that a pause for consecutive losses stays in force.
C20_ResetLiftsOnlyDailyLossPause ==
    \A new_balance \in Totals :
        LET after == reset_daily_metrics(rm, new_balance)
        IN  /\ after.daily_start_balance = Some(new_balance)
            /\ after.trade_history = << >>
            /\ IF rm.is_paused /\ Val(rm.pause_reason).text = "Daily loss limit exceeded"
               THEN /\ ~after.is_paused
                    /\ after.pause_reason = None
                    /\ after.pause_until = None
               ELSE /\ after.is_paused = rm.is_paused
                    /\ after.pause_reason = rm.pause_reason
                    /\ after.pause_until = rm.pause_until

\* C20 witness: a daily reset has emptied the history and left the pause for
\* consecutive losses in force.
C20_Witness ==
    /\ last_op = "reset_daily_metrics"
    /\ rm.trade_history = << >>
    /\ rm.is_paused
    /\ Val(rm.pause_reason).text = "Consecutive loss limit reached"
    /\ now <= Val(rm.pause_until)

\* The trades of h dated the day d, in the order of h.
DatedOn(h, d) ==
    LET keep[k \in 0..Len(h)] ==
            IF k = 0 THEN << >>
            ELSE IF Date(h[k].timestamp) = d THEN Append(keep[k - 1], h[k])
            ELSE keep[k - 1]
    IN  keep[Len(h)]

\* C21: after every record_trade_result, trade_history holds exactly those of
\* the trades held before and the trade recorded whose timestamp date is the
\* current date, in recording order; every trade dated another day is dropped,
\* the recorded one included.
C21_HistoryIsToday ==
    \A trade_result \in TradeResults(Outcomes, now) :
        LET after == record_trade_result(rm, config, trade_result, now).trade_history
            kept == DatedOn(rm.trade_history, Date(now))
        IN  /\ \A i \in 1..Len(after) : Date(after[i].timestamp) = Date(now)
            /\ after = IF Date(trade_result.timestamp) = Date(now)
                       THEN kept \o <<trade_result>>
                       ELSE kept

\* C21 witness: after a record, the history holds a trade of the day before,
\* and recording a trade with the day before's timestamp now drops both.
C21_Witness ==
    /\ last_op = "record_trade_result"
    /\ rm.trade_history # << >>
    /\ \A i \in 1..Len(rm.trade_history) : Date(rm.trade_history[i].timestamp) # Date(now)
    /\ \E trade_result \in TradeResults(Outcomes, now) :
           /\ Date(trade_result.timestamp) # Date(now)
           /\ record_trade_result(rm, config, trade_result, now).trade_history = << >>

\* C22: calculate_position_size(balance, risk_percent) is
\* max(1.0, min(balance * min(risk_percent, max_trade_percent) / 100,
\* balance * max_trade_percent / 100)) rounded to 2 decimals, risk_percent
\* defaulting to max_trade_percent: with max_trade_percent = 2 it is 20.00 for
\* the balance 1000 both by default and for risk_percent 5, and it is 1.00 for
\* every balance <= 0.
C22_PositionSize ==
    \A balance \in SizeBalances, risk_percent \in RiskPercents :
        LET size == calculate_position_size(config, balance, risk_percent)
            limit == config.max_trade_percent
            asked == IF risk_percent = None THEN limit ELSE Val(risk_percent)
            capped == IF asked > limit THEN limit ELSE asked
            \* in ten-thousandths of the unit
            wanted == balance * capped
            ceiling == balance * limit
            floor == 100 * 100
            exact == IF wanted <= ceiling
                     THEN (IF wanted >= floor THEN wanted ELSE floor)
                     ELSE (IF ceiling >= floor THEN ceiling ELSE floor)
        IN  /\ 100 * size - exact <= 50
            /\ exact - 100 * size <= 50
            /\ size >= 100
            /\ balance <= 0 => size = 100
            /\ (limit = 2 /\ balance = 100000 /\ risk_percent \in {None, Some(5)})
                   => size = 2000
            /\ risk_percent = None
                   => size = calculate_position_size(config, balance, Some(limit))

\* C22 witness: with max_trade_percent = 2, calculate_position_size(1000, 5)
\* has returned 20.00.
C22_Witness ==
    /\ last_op = "calculate_position_size"
    /\ config.max_trade_percent = 2
    /\ last_ret = [balance |-> 100000, risk_percent |-> Some(5), size |-> 2000]

\* C39: for every balance b > 0 and every risk_percent, the amount returned by
\* calculate_position_size(b, risk_percent) passes the amount checks of
\* validate_trade_request against available_balance = b: it is positive, at
\* most b, and at most b * max_trade_percent / 100.  (Amounts in hundredths.)
C39_SizePassesAmountChecks ==
    \A balance \in SizeBalances, risk_percent \in RiskPercents :
        balance > 0 =>
            LET size == calculate_position_size(config, balance, risk_percent)
            IN  /\ size > 0
                /\ size <= balance
                /\ size * 100 <= balance * config.max_trade_percent
                /\ _validate_trade_amount(config, size, balance).is_valid

\* C40: at every instant the is_paused value that get_risk_metrics reports
\* equals what is_trading_paused returns at that instant, also once pause_until
\* has passed.
C40_MetricsAgreeWithPauseQuery ==
    \A current_balance \in MetricBalances :
        get_risk_metrics(rm, current_balance).ret.is_paused = is_trading_paused(rm, now).ret

\* C23: two get_risk_metrics calls with the same current_balance, with no trade
\* recorded and no pause, resume or reset in between, return equal RiskMetrics,
\* also when the clock has moved or other balances have been queried in
\* between; a get_risk_metrics call changes no engine state except setting
\* daily_start_balance when it was unset.
C23_MetricsIdempotent ==
    /\ \A current_balance \in MetricBalances :
           LET first == get_risk_metrics(rm, current_balance)
               lazily == IF rm.daily_start_balance = None
                         THEN [rm EXCEPT !.daily_start_balance = Some(current_balance)]
                         ELSE rm
               second == get_risk_metrics(first.state, current_balance)
           IN  /\ first.state = lazily
               /\ second.state = first.state
               /\ second.ret = first.ret
               /\ \A other \in MetricBalances :
                      LET between == get_risk_metrics(first.state, other)
                      IN  /\ between.state = first.state
                          /\ get_risk_metrics(between.state, current_balance) = second
    /\ (last_op = "get_risk_metrics") =>
           \E current_balance \in MetricBalances :
               get_risk_metrics(rm, current_balance) = [state |-> rm, ret |-> last_ret]

\* C23 witness: get_risk_metrics has reported a daily loss against a start
\* balance set earlier, with trades in the history, and the clock has moved
\* since the engine was built.
C23_Witness ==
    /\ last_op = "get_risk_metrics"
    /\ last_ret.daily_loss > 0
    /\ last_ret.trades_today > 0
    /\ rm.daily_start_balance = Some(1000)
    /\ now > StartSecond

\* The timestamp of the newest trade of h that is a loss (is_win false), if any.
NewestLoss(h) ==
    LET losses == {i \in 1..Len(h) : h[i].is_win = "False"}
    IN  IF losses = {} THEN None
        ELSE Some(h[CHOOSE i \in losses : \A j \in losses : j <= i].timestamp)

\* C24: the last_loss_time returned by get_risk_metrics is the timestamp of the
\* most recent trade in trade_history that is a loss (is_win false), and None
\* when the history holds no losing trade; a trade whose outcome is not yet
\* known (is_win unset) is not reported as the last loss.
C24_LastLossIsALoss ==
    \A current_balance \in MetricBalances :
        get_risk_metrics(rm, current_balance).ret.last_loss_time = NewestLoss(rm.trade_history)

\* C35: the streak used by record_trade_result, validate_trade_request and
\* get_risk_metrics is the number of trades with is_win false met when walking
\* trade_history back from the newest trade to the first trade with is_win
\* true: a win resets it to 0, and a trade not yet settled neither adds to it
\* nor ends the walk.
C35_StreakIsLossesSinceLastWin ==
    LET h == rm.trade_history
        streak == LossesSinceLastWin(h)
        before_newest == _count_consecutive_losses_from(h, Len(h) - 1)
    IN  /\ _count_consecutive_losses(rm) = streak
        /\ h # << >> =>
               _count_consecutive_losses(rm)
                   = CASE h[Len(h)].is_win = "True" -> 0
                       [] h[Len(h)].is_win = "False" -> before_newest + 1
                       [] OTHER -> before_newest
        /\ \A current_balance \in MetricBalances :
               get_risk_metrics(rm, current_balance).ret.consecutive_losses = streak
        /\ \A request \in StreakRequests, balance \in StreakBalances :
               LET error == validate_trade_request(rm, config, request, balance, now)
                                .ret.error_message
               IN  /\ error.text = "Consecutive loss limit reached"
                          <=> FirstFailingCheck(request, balance) = "Consecutive loss limit reached"
                   /\ error.text = "Consecutive loss limit reached" => error.n = streak
        /\ \A trade_result \in TradeResults(Outcomes, now) :
               LET after == record_trade_result(rm, config, trade_result, now)
                   recorded == LossesSinceLastWin(after.trade_history)
               IN  recorded >= config.consecutive_loss_limit =>
                       after.pause_reason
                           = Some(Reason("Consecutive loss limit reached", recorded))

\* C35 witness: a request has been rejected for a streak at the limit, counted
\* past a newest trade that has not settled.
C35_Witness ==
    /\ last_op = "validate_trade_request"
    /\ last_ret.error_message = Msg("Consecutive loss limit reached", "",
                                    ConsecutiveLossLimit, ConsecutiveLossLimit)
    /\ rm.trade_history # << >>
    /\ rm.trade_history[Len(rm.trade_history)].is_win = "None"

\* The balance shows no daily-loss breach.
NoDailyLossBreach(balance) ==
    \/ rm.daily_start_balance = None
    \/ (Val(rm.daily_start_balance) - balance.total_balance) * 100
           < config.max_daily_loss_percent * Val(rm.daily_start_balance)

\* C38: once a pause that record_trade_result set for a consecutive-loss streak
\* is lifted, by resume_trading() or by the expiry of pause_until, with no trade
\* recorded in between, the next validate_trade_request whose amount is within
\* limits, whose balance shows no daily-loss breach and whose is_demo flag
\* matches the configuration returns is_valid = true.
C38_TradingGoesOnAfterPause ==
    (/\ rm.is_paused
     /\ rm.pause_until # None
     /\ rm.pause_reason = Some(Reason("Consecutive loss limit reached",
                                      LossesSinceLastWin(rm.trade_history)))) =>
        \A request \in StreakRequests, balance \in StreakBalances :
            (/\ AmountChecksPass(request, balance)
             /\ NoDailyLossBreach(balance)
             /\ (config.demo_mode => request.is_demo)) =>
                /\ validate_trade_request(resume_trading(rm).state, config, request, balance,
                                          now).ret.is_valid
                /\ validate_trade_request(rm, config, request, balance,
                                          Val(rm.pause_until) + 1).ret.is_valid

----------------------------------------------------------------------------
(* Claims about the circuit breaker *)

\* C5: while failure_count is below failure_threshold the breaker is Closed and
\* can_execute() returns true and changes nothing; record_failure raises the
\* count by one, leaves the breaker Closed below the threshold and opens it when
\* the count reaches the threshold, after which can_execute() returns false up
\* to and including the instant timeout later.
C5_OpensAtThreshold ==
    /\ breaker.failure_count < breaker.failure_threshold
       => /\ breaker.state = "CLOSED"
          /\ can_execute(breaker, now) = [breaker |-> breaker, ret |-> TRUE]
    /\ LET after == record_failure(breaker, now)
       IN  /\ after.failure_count = breaker.failure_count + 1
           /\ IF after.failure_count >= breaker.failure_threshold
              THEN /\ after.state = "OPEN"
                   /\ \A t \in now..(now + breaker.timeout) :
                          can_execute(after, t) = [breaker |-> after, ret |-> FALSE]
              ELSE after.state = "CLOSED"

\* C5 witness: the failure that brought failure_count to a threshold above 1
\* has opened a Closed breaker.
C5_Witness ==
    /\ last_op = "record_failure"
    /\ last_found = "CLOSED"
    /\ breaker.failure_threshold > 1
    /\ breaker.failure_count = breaker.failure_threshold
    /\ breaker.state = "OPEN"

\* C6: for an Open breaker can_execute() returns false and changes nothing
\* while now - last_failure_time <= timeout, and moves the breaker to HalfOpen
\* and returns true once now - last_failure_time > timeout.
C6_OpenUntilTimeout ==
    breaker.state = "OPEN" =>
        /\ breaker.last_failure_time # None
        /\ can_execute(breaker, now) =
              IF now - Val(breaker.last_failure_time) <= breaker.timeout
              THEN [breaker |-> breaker, ret |-> FALSE]
              ELSE [breaker |-> [breaker EXCEPT !.state = "HALF_OPEN"], ret |-> TRUE]

\* C6 witness: can_execute() found the breaker Open after its timeout and
\* promoted it to HalfOpen.
C6_Witness ==
    /\ last_op = "can_execute"
    /\ last_found = "OPEN"
    /\ last_ret = TRUE
    /\ breaker.state = "HALF_OPEN"
    /\ now - Val(breaker.last_failure_time) > breaker.timeout

\* C7: for a HalfOpen breaker record_success() sets failure_count to 0 and the
\* state to Closed, and record_failure() opens it at once with
\* last_failure_time the instant of that failure, so that can_execute() is
\* false until a whole timeout has passed again.
C7_HalfOpenTrial ==
    breaker.state = "HALF_OPEN" =>
        /\ record_success(breaker) = [breaker EXCEPT !.failure_count = 0, !.state = "CLOSED"]
        /\ LET after == record_failure(breaker, now)
           IN  /\ after.state = "OPEN"
               /\ after.last_failure_time = Some(now)
               /\ \A t \in now..(now + breaker.timeout) : ~can_execute(after, t).ret
               /\ can_execute(after, now + breaker.timeout + 1).ret

\* C7 witness: the trial of a HalfOpen breaker failed and re-opened it.
C7_Witness ==
    /\ last_op = "record_failure"
    /\ last_found = "HALF_OPEN"
    /\ breaker.state = "OPEN"
    /\ breaker.last_failure_time = Some(now)

\* C34: failure_count is never negative; record_failure raises it by exactly 1,
\* can_execute leaves it unchanged, and the only operation that lowers it is
\* record_success, which sets it to 0 in whatever state the breaker is.
C34_FailureCount ==
    /\ [](breaker.failure_count >= 0)
    /\ [][/\ BreakerRecordFailure => breaker'.failure_count = breaker.failure_count + 1
          /\ BreakerCanExecute => breaker'.failure_count = breaker.failure_count
          /\ BreakerRecordSuccess => breaker'.failure_count = 0
          /\ breaker'.failure_count < breaker.failure_count => BreakerRecordSuccess]_vars

\* C34 witness: record_success has reset the count of a breaker that was Open,
\* and of one that was HalfOpen.
C34_Witness ==
    /\ last_op = "record_success"
    /\ last_found \in {"OPEN", "HALF_OPEN"}
    /\ breaker.failure_count = 0
    /\ breaker.failure_threshold > 1

\* C37: in every state reached through record_success, record_failure and
\* can_execute, the breaker is Open or HalfOpen only if failure_count >=
\* failure_threshold, and Closed only if failure_count < failure_threshold.
C37_StateAgreesWithCount ==
    /\ breaker.state \in {"OPEN", "HALF_OPEN"} =>
           breaker.failure_count >= breaker.failure_threshold
    /\ breaker.state = "CLOSED" => breaker.failure_count < breaker.failure_threshold

\* C37 witness: a failure recorded while HalfOpen has opened the breaker again,
\* its count above the threshold.
C37_Witness ==
    /\ last_op = "record_failure"
    /\ last_found = "HALF_OPEN"
    /\ breaker.state = "OPEN"
    /\ breaker.failure_count > breaker.failure_threshold

----------------------------------------------------------------------------
(* Claims about the gate *)

\* The callers whose action is awaited and who were let in by a HalfOpen breaker.
Trials == {c \in Callers : pc[c] = "action" /\ admitted[c] = "HALF_OPEN"}

\* The requests recorded in the limiter that are younger than time_window.
YoungRequests ==
    {i \in 1..Len(limiter.requests) : now - limiter.requests[i] < limiter.time_window}

\* C8: while the breaker is HalfOpen, at most one caller let in as the trial has
\* its action in flight.
C8_SingleTrial == breaker.state = "HALF_OPEN" => Cardinality(Trials) <= 1

\* C9: the number of recorded requests younger than time_window never exceeds
\* max_requests.
C9_WindowNeverExceeded == Cardinality(YoungRequests) <= limiter.max_requests

\* C10: when can_execute() is false the call raises the circuit-open error
\* before any await, with the breaker and the limiter as they were: no sleep, no
\* action, no request recorded.
C10_CircuitOpenRejects ==
    ~can_execute(breaker, now).ret =>
        LET r == execute_begin(breaker, limiter, now)
        IN  /\ r.pc = "raised"
            /\ r.breaker = breaker
            /\ r.limiter = limiter

\* C10 witness: a call was refused as circuit-open while the limiter held a
\* request and the breaker stayed Open.
C10_Witness ==
    /\ last_op = "_execute_with_circuit_breaker"
    /\ last_ret = "circuit breaker is OPEN"
    /\ breaker.state = "OPEN"
    /\ limiter.requests # << >>
    /\ \A c \in Callers : pc[c] = "idle"

\* C36: under concurrent callers of one gate, an Open breaker becomes Closed
\* only through HalfOpen after its timeout: a call that started while the breaker
\* was Closed and whose action returns after other calls' failures have opened
\* the breaker does not close it or reset its failure count.
C36_LateSuccessKeepsOpen ==
    \A c \in Callers :
        (pc[c] = "action" /\ found[c] = "CLOSED" /\ breaker.state = "OPEN") =>
            \A result \in Results :
                LET r == execute_action_returned(breaker, result)
                IN  /\ r.breaker.state = "OPEN"
                    /\ r.breaker.failure_count = breaker.failure_count

\* C11: when the awaited action returns, the call records one success and
\* nothing else on the breaker (failure_count 0, Closed, last_failure_time kept)
\* and returns the action's result; when the action raises, the call records
\* one failure and nothing else (failure_count one more, last_failure_time the
\* present instant) and raises the action's own exception; it never returns
\* after a failure.
C11_RecordsOnceAndPropagates ==
    (\E c \in Callers : pc[c] = "action") =>
        /\ \A result \in Results :
               LET r == execute_action_returned(breaker, result)
               IN  /\ r.recorded = <<"record_success">>
                   /\ r.ret = Some(result)
                   /\ r.raised = None
                   /\ r.breaker.failure_count = 0
                   /\ r.breaker.state = "CLOSED"
                   /\ r.breaker.last_failure_time = breaker.last_failure_time
        /\ \A e \in Causes :
               LET r == execute_action_raised(breaker, e, now)
               IN  /\ r.recorded = <<"record_failure">>
                   /\ r.raised = Some(e)
                   /\ r.ret = None
                   /\ r.breaker.failure_count = breaker.failure_count + 1
                   /\ r.breaker.last_failure_time = Some(now)

\* C11 witness: an action raised; the call recorded the failure that brought the
\* breaker to its threshold and opened it, and raised the action's exception.
C11_Witness ==
    /\ last_op = "_execute_with_circuit_breaker"
    /\ last_ret \in Causes
    /\ breaker.state = "OPEN"
    /\ breaker.failure_threshold > 1
    /\ breaker.failure_count = breaker.failure_threshold
    /\ breaker.last_failure_time = Some(now)

\* The requests of the limiter l that are younger than its time_window at t.
Young(l, t) == SelectSeq(l.requests, LAMBDA req_time : t - req_time < l.time_window)

\* C13 as claimed: a call that is cancelled in its rate-limit wait leaves the
\* breaker and the limiter exactly as it found them, records neither success
\* nor failure, does not invoke the action and ends with CancelledError, which
\* is not the failure of an operation.
C13_CancelledWaitLeavesNoTrace ==
    LET r == execute_begin(breaker, limiter, now)
    IN  r.pc = "sleeping" =>
            LET x == execute_cancelled(r.breaker, r.limiter)
            IN  /\ x.breaker = breaker
                /\ x.limiter = limiter
                /\ x.recorded = << >>
                /\ ~x.invoked
                /\ x.raised = Some("CancelledError")
                /\ Val(x.raised) \notin Causes

\* C13 amended: a call that is cancelled in its rate-limit wait leaves
\* failure_count and last_failure_time as it found them, leaves the breaker's
\* state as it found it unless the breaker was Open with its timeout passed,
\* which can_execute() has promoted to HalfOpen, and leaves the limiter's
\* requests as they were apart from the expired ones, pruned; it records
\* neither success nor failure, does not invoke the action and ends with
\* CancelledError.
C13_CancelledWaitRecordsNothing ==
    LET r == execute_begin(breaker, limiter, now)
    IN  r.pc = "sleeping" =>
            LET x == execute_cancelled(r.breaker, r.limiter)
            IN  /\ x.breaker.failure_count = breaker.failure_count
                /\ x.breaker.last_failure_time = breaker.last_failure_time
                /\ IF /\ breaker.state = "OPEN"
                      /\ now - Val(breaker.last_failure_time) > breaker.timeout
                   THEN x.breaker = [breaker EXCEPT !.state = "HALF_OPEN"]
                   ELSE x.breaker = breaker
                /\ x.limiter = [limiter EXCEPT !.requests = Young(limiter, now)]
                /\ x.recorded = << >>
                /\ ~x.invoked
                /\ x.raised = Some("CancelledError")
                /\ Val(x.raised) \notin Causes

\* C13 witness: a call that found the breaker Open was cancelled in its wait and
\* has left the breaker HalfOpen, its failure recorded before the timeout.
C13_Witness ==
    /\ last_op = "_execute_with_circuit_breaker"
    /\ last_ret = "CancelledError"
    /\ last_found = "OPEN"
    /\ breaker.state = "HALF_OPEN"
    /\ now - Val(breaker.last_failure_time) > breaker.timeout

----------------------------------------------------------------------------
(* Claims about the APIManager's operation classes *)

\* The operation classes, by the method that serves each: market-data fetch,
\* trade placement, signal validation, notification.
OperationClasses == {"get_market_data", "place_trade", "validate_signal", "send_notification"}

\* C12: a failure of an operation of one class, and the request of a further
\* call of that class, leave the breaker and the limiter that every other class
\* uses as they are.
C12_ClassesIndependent ==
    \A k \in Tasks :
        (task[k].pc = "action" /\ task[k].method \in OperationClasses) =>
            \A other \in OperationClasses \ {task[k].method} :
                LET mine == GateOf(other)
                    begun == method_begin(api, task[k].method, now).api
                IN  /\ begun.breaker[mine] = api.breaker[mine]
                    /\ begun.limiter[mine] = api.limiter[mine]
                    /\ \A e \in Causes :
                           LET failed == method_action_raised(api, task[k].method, e, now).api
                           IN  /\ failed.breaker[mine] = api.breaker[mine]
                               /\ failed.limiter[mine] = api.limiter[mine]

\* A task is suspended in the rate-limit wait of the gate g.
WaitsAt(k, g) ==
    /\ task[k].pc \in {"sleeping", "time.sleep"}
    /\ GateOf(task[k].method) = g

\* C14: while a task is suspended in the rate-limit wait of one gate, a task
\* whose operation of another gate is in flight can complete it, and an idle
\* task can start an operation of another gate.
C14_WaitDelaysNoOtherClass ==
    \A k \in Tasks, g \in Gates :
        WaitsAt(k, g) =>
            \A k2 \in Tasks \ {k} :
                /\ (task[k2].pc = "action" /\ GateOf(task[k2].method) # g)
                       => ENABLED MethodActionReturns(k2)
                /\ (task[k2].pc = "idle" /\ calls < MaxTradeCalls /\ g # "pocket_option")
                       => ENABLED MethodBegin(k2, "place_trade")


----------------------------------------------------------------------------
(* Claims about threads sharing the risk engine *)

Held(h) == {h[i] : i \in 1..Len(h)}

\* C25: when record_trade_result runs concurrently with another
\* record_trade_result or with get_risk_metrics on the same RiskManager, every
\* recorded trade dated today is present in trade_history once all calls have
\* returned.
C25_NoRecordedTradeLost ==
    (\A k \in Threads : task[k].pc = "idle") =>
        \A k \in Threads : \A trade_result \in task[k].returned :
            Date(trade_result.timestamp) = Date(now) => trade_result \in Held(rm.trade_history)


----------------------------------------------------------------------------
(* Claims about the signal processor *)

ClosesOf(market_data) == [i \in 1..Len(market_data) |-> market_data[i].close_price]

\* The indicators can be computed from the market data: both periods are
\* positive, there are prices enough for both, and every price is positive.
Computable(s, market_data) ==
    /\ s.rsi_period > 0
    /\ s.sma_period > 0
    /\ Len(market_data) >= s.rsi_period + 1
    /\ Len(market_data) >= s.sma_period
    /\ \A i \in 1..Len(market_data) : market_data[i].close_price > 0

\* The last close is above (side = 1) or below (side = -1) the average of the
\* last sma_period closes.
LastCloseBeyondSma(s, market_data, side) ==
    LET closes == ClosesOf(market_data)
        n == Len(closes)
        total == SumOf(closes, n - s.sma_period + 1, n)
    IN  side * (closes[n] * s.sma_period - total) > 0

\* C26: generate_signal returns a BUY signal if and only if the indicators can
\* be computed and rsi < rsi_oversold_threshold and the last close > sma; a SELL
\* signal if and only if rsi > rsi_overbought_threshold and the last close <
\* sma; in every other case, also when the indicators cannot be computed, it
\* returns None; it never reports both directions.
C26_SignalRule ==
    \A market_data \in MarketSeries :
        LET ret == generate_signal(sp, market_data)
            rsi == calculate_rsi(sp, ClosesOf(market_data), None).value
            buy == /\ Computable(sp, market_data)
                   /\ FLt(rsi, FInt(sp.rsi_oversold_threshold))
                   /\ LastCloseBeyondSma(sp, market_data, 1)
            sell == /\ Computable(sp, market_data)
                    /\ FLt(FInt(sp.rsi_overbought_threshold), rsi)
                    /\ LastCloseBeyondSma(sp, market_data, -1)
        IN  /\ ~(buy /\ sell)
            /\ buy <=> (ret # None /\ Val(ret).signal_type = "BUY")
            /\ sell <=> (ret # None /\ Val(ret).signal_type = "SELL")
            /\ (~buy /\ ~sell) <=> ret = None

\* C26 witness: generate_signal has returned a BUY signal under the thresholds
\* of the constructor.
C26_Witness ==
    /\ last_op = "generate_signal"
    /\ last_ret # None
    /\ Val(last_ret).signal_type = "BUY"
    /\ sp.rsi_oversold_threshold = 30
    /\ sp.rsi_overbought_threshold = 70


\* The value update_parameters was given for a field, or the field as it was.
Given(arg, was) == IF arg = None THEN was ELSE Val(arg)

\* C27: update_parameters either applies all the values it was given or, when
\* it raises ValueError for an invalid period, an out-of-range threshold or an
\* inverted order of the thresholds, leaves rsi_period, sma_period,
\* rsi_oversold_threshold and rsi_overbought_threshold exactly as they were.
C27_UpdateAllOrNothing ==
    \A rsi_period \in PeriodArgs, sma_period \in PeriodArgs,
       rsi_oversold \in OversoldArgs, rsi_overbought \in OverboughtArgs :
        LET r == update_parameters(sp, rsi_period, sma_period, rsi_oversold, rsi_overbought)
        IN  IF r.raised = ""
            THEN r.state = [rsi_period |-> Given(rsi_period, sp.rsi_period),
                            sma_period |-> Given(sma_period, sp.sma_period),
                            rsi_oversold_threshold |->
                                Given(rsi_oversold, sp.rsi_oversold_threshold),
                            rsi_overbought_threshold |->
                                Given(rsi_overbought, sp.rsi_overbought_threshold)]
            ELSE r.raised = "ValueError" /\ r.state = sp

\* C28: in every state reached from the constructor by update_parameters calls,
\* accepted or rejected, rsi_oversold_threshold is strictly less than
\* rsi_overbought_threshold.
C28_ThresholdsOrdered == sp.rsi_oversold_threshold < sp.rsi_overbought_threshold


\* The fraction x lies in [0, 1].
InUnitInterval(x) == x.den > 0 /\ 0 <= x.num /\ x.num <= x.den

\* The fraction x is the integer n.
IsInteger(x, n) == x.num = n * x.den

\* The fraction x is c + tenths / 10.
IsShifted(x, c, tenths) == x = Frac(10 * c.num + tenths * c.den, 10 * c.den)

\* The Alpha Vantage gate lets a call through at this instant.
ValidationAdmitted == method_begin(api, "validate_signal", now).pc # "raised"

\* C29: every Signal produced by generate_signal has its confidence in [0, 1],
\* and validate_signal_with_alpha_vantage returns min(1.0, c + 0.2) when the
\* external validation answers true and max(0.0, c - 0.3) when it answers false,
\* so that the confidence of a signal stays in [0, 1] after any number of
\* validations.
C29_ConfidenceInUnitInterval ==
    /\ \A market_data \in MarketSeries :
           LET ret == generate_signal(sp, market_data)
           IN  ret # None => InUnitInterval(Val(ret).confidence)
    /\ (last_op \in {"generate_signal", "validate_signal_with_alpha_vantage"}
        /\ last_ret # None) =>
           LET signal == Val(last_ret)
               c == signal.confidence
               up == validate_signal_with_alpha_vantage(api, signal, Returns(TRUE), now).ret
               down == validate_signal_with_alpha_vantage(api, signal, Returns(FALSE), now).ret
           IN  /\ InUnitInterval(c)
               /\ ValidationAdmitted =>
                      /\ IF 10 * c.num + 2 * c.den >= 10 * c.den
                         THEN IsInteger(up, 1) ELSE IsShifted(up, c, 2)
                      /\ IF 10 * c.num - 3 * c.den <= 0
                         THEN IsInteger(down, 0) ELSE IsShifted(down, c, -3)
                      /\ InUnitInterval(up)
                      /\ InUnitInterval(down)

\* C29 witness: a validation answered true has capped at 1 the confidence of a
\* signal that was validated before.
C29_Witness ==
    /\ last_op = "validate_signal_with_alpha_vantage"
    /\ calls = MaxValidations
    /\ IsInteger(Val(last_ret).confidence, 1)


\* C30: when the external validation call fails (the validation action raises,
\* or the gate rejects it as circuit-open), validate_signal_with_alpha_vantage
\* returns the signal's original confidence, and
\* process_market_data_and_generate_signal still returns the signal with every
\* field unchanged: it answers with the signal, not with an error.
C30_ValidationFailureKeepsSignal ==
    \A market_data \in MarketSeries :
        LET signal == generate_signal(sp, market_data)
            fetch == method_call(api, "get_market_data", Returns(market_data), now)
            rejected == method_begin(fetch.api, "validate_signal", fetch.t).pc = "raised"
        IN  (signal # None /\ fetch.raised = "") =>
                /\ \A e \in Causes :
                       /\ validate_signal_with_alpha_vantage(fetch.api, Val(signal), Raises(e),
                                                             fetch.t).ret
                              = Val(signal).confidence
                       /\ process_market_data_and_generate_signal(
                              sp, api, Returns(market_data), Raises(e), now).ret = signal
                /\ rejected =>
                       \A answer \in Answers :
                           /\ validate_signal_with_alpha_vantage(fetch.api, Val(signal), answer,
                                                                 fetch.t).ret
                                  = Val(signal).confidence
                           /\ process_market_data_and_generate_signal(
                                  sp, api, Returns(market_data), answer, now).ret = signal

\* C30 witness: the pipeline has returned a signal although the Alpha Vantage
\* breaker, opened by five failed validations, rejected the validation call.
C30_Witness ==
    /\ last_op = "process_market_data_and_generate_signal"
    /\ last_ret # None
    /\ last_found = Some("OPEN")
    /\ api.breaker["alpha_vantage"].state = "OPEN"
    /\ api.breaker["alpha_vantage"].failure_count = DefaultFailureThreshold
    /\ Val(last_ret).signal_type \in {"BUY", "SELL"}


StrictlyIncreasing(prices) == \A i \in 1..(Len(prices) - 1) : prices[i] < prices[i + 1]

Positive(prices) == \A i \in 1..Len(prices) : prices[i] > 0

\* C31: for every period > 0 and every strictly increasing series of positive
\* prices of length >= period + 1, calculate_rsi returns exactly 100; it
\* returns 100 whenever the smoothed average loss is 0, and it never raises a
\* ZeroDivisionError.
C31_RsiOfRisingPrices ==
    \A prices \in RsiPrices, period_ \in RsiPeriods :
        LET period == IF period_ = None THEN sp.rsi_period ELSE Val(period_)
            rsi == calculate_rsi(sp, prices, period_)
        IN  /\ rsi.raised \in {"", "ValueError"}
            /\ (period > 0 /\ Positive(prices) /\ Len(prices) >= period + 1) =>
                   /\ StrictlyIncreasing(prices) => rsi = Returns(FInt(100))
                   /\ smoothed_averages(prices, period).loss = 0 => rsi = Returns(FInt(100))
                   /\ rsi.raised = ""

\* C31 witness: calculate_rsi has returned 100 for four rising prices and
\* period 3.
C31_Witness ==
    /\ last_op = "calculate_rsi"
    /\ last_ret.period = Some(3)
    /\ Len(last_ret.prices) = 4
    /\ StrictlyIncreasing(last_ret.prices)
    /\ Positive(last_ret.prices)
    /\ last_ret.rsi = Returns(FInt(100))


----------------------------------------------------------------------------
(* Claims about the rate limiter *)

\* The requests of l recorded less than time_window before t, by position.
InWindow(l, t) == {i \in 1..Len(l.requests) : t - l.requests[i] < l.time_window}

\* How many times l holds the timestamp v.
Held_at(l, v) == Cardinality({i \in 1..Len(l.requests) : l.requests[i] = v})

\* The instants the clock of the limiter can show.
Instants == {StartSecond + k * LimiterTick : k \in 0..(MaxLimiterTicks + 2)}

\* C32: can_make_request() returns true if and only if fewer than max_requests
\* recorded timestamps are younger than time_window; an empty window permits;
\* with exactly max_requests requests inside the window it returns false until
\* the oldest of them is time_window old; the call adds no timestamp and removes
\* only the expired ones.
C32_CanMakeRequest ==
    LET r == can_make_request(limiter, now)
        young == InWindow(limiter, now)
    IN  /\ r.ret <=> Cardinality(young) < limiter.max_requests
        /\ limiter.requests = << >> => r.ret
        /\ r.limiter.max_requests = limiter.max_requests
        /\ r.limiter.time_window = limiter.time_window
        /\ \A v \in Instants :
               Held_at(r.limiter, v)
                   = IF now - v < limiter.time_window THEN Held_at(limiter, v) ELSE 0
        /\ Cardinality(young) = limiter.max_requests =>
               \A later \in {t \in Instants : t >= now} :
                   can_make_request(limiter, later).ret
                       <=> \E i \in young :
                               /\ \A j \in young : limiter.requests[i] <= limiter.requests[j]
                               /\ later - limiter.requests[i] >= limiter.time_window

\* C32 witness: can_make_request() has removed an expired request and returned
\* false, max_requests requests being left inside the window.
C32_Witness ==
    /\ last_op = "can_make_request"
    /\ last_ret = FALSE
    /\ Len(limiter.requests) = limiter.max_requests
    /\ Len(last_found.requests) > Len(limiter.requests)

\* C33: wait_time() returns 0 whenever can_make_request() would return true at
\* that instant, and otherwise (oldest in-window timestamp + time_window) - now,
\* which is strictly positive: the result is never negative and is positive
\* whenever the limiter is blocking.
C33_WaitTime ==
    LET w == wait_time(limiter, now)
        young == InWindow(limiter, now)
        blocking == Cardinality(young) >= limiter.max_requests
    IN  /\ w.ret >= 0
        /\ can_make_request(limiter, now).ret => w.ret = 0
        /\ blocking <=> w.ret > 0
        /\ blocking =>
               \E i \in young :
                   /\ \A j \in young : limiter.requests[i] <= limiter.requests[j]
                   /\ w.ret = (limiter.requests[i] + limiter.time_window) - now

\* C33 witness: wait_time() has returned what is left of the window of the
\* oldest of two requests recorded at different instants.
C33_Witness ==
    /\ last_op = "wait_time"
    /\ last_ret > 0
    /\ last_ret < TimeWindow
    /\ \E i, j \in InWindow(last_found, now) : last_found.requests[i] # last_found.requests[j]

====
